---- MODULE Spec2Model ----
(***************************************************************************)
(* PayrollHub: the project webhook (supabase/functions/project-webhook),   *)
(* the manual payroll calculator and the bonus settings screen, over the   *)
(* employees, app_settings and payouts tables.                             *)
(*                                                                         *)
(* Units.  Money is kept in cents, percentages and NUMERIC(5,2) rates in   *)
(* hundredths of a percent (30% = 3000).  A JavaScript number holding an   *)
(* amount is the exact rational [n, d] in cents; the NUMERIC(10,2) column  *)
(* rounds it when the row is stored.  Text that the code parses is a       *)
(* sequence of one-character strings.                                     *)
(***************************************************************************)
EXTENDS Integers, Sequences, FiniteSets, TLC

VARIABLES employees, app_settings, payouts, call, nOps, rateIn, rateOut,
          time_entries, timeEntries, reportEntries, now, tcall, pure, inflight

\* the time clock: the time_entries table, each browser's loaded list, the list of
\* the report, the wall clock and the last time-clock operation
timeVars == <<time_entries, timeEntries, reportEntries, now, tcall>>

vars == <<employees, app_settings, payouts, call, nOps, rateIn, rateOut,
          time_entries, timeEntries, reportEntries, now, tcall, pure, inflight>>

(* ------------------------------ bounds -------------------------------- *)

\* operations (webhook calls, calculator runs, settings updates) in one behaviour
MaxOps == 2

\* largest collaborator count drawn for the rate selection
MaxCollab == 7

\* time-clock writes (check-ins, check-outs, edits, deletes) in one behaviour;
\* reloads and the clock are not counted
MaxTimeOps == 3


(* --------------------------- SQL and JS values ------------------------- *)

\* SQL NULL / JS null in a text or uuid column
NULL == "NULL"

\* SQL NULL / JS null in a numeric column
NoNum == -1

\* SQL NULL / JS null in a timestamp column (check_out_time IS NULL)
NoTime == -1

\* JS `x || 0` on a nullable number
OrZero(x) == IF x = NoNum THEN 0 ELSE x

Digits == <<"0", "1", "2", "3", "4", "5", "6", "7", "8", "9">>

IsDigit(ch) == \E i \in 1..10 : Digits[i] = ch

DigitVal(ch) == (CHOOSE i \in 1..10 : Digits[i] = ch) - 1

\* the longest prefix of s made of digits
RECURSIVE DigitPrefix(_)
DigitPrefix(s) ==
  IF s = <<>> \/ ~IsDigit(Head(s)) THEN <<>>
  ELSE <<Head(s)>> \o DigitPrefix(Tail(s))

\* the value of a digit string
RECURSIVE DigitsValue(_)
DigitsValue(s) ==
  IF s = <<>> THEN 0
  ELSE 10 * DigitsValue(SubSeq(s, 1, Len(s) - 1)) + DigitVal(s[Len(s)])

\* JS parseFloat on an unsigned decimal text: the longest numeric prefix, NaN when
\* there is none; the value in hundredths (two fraction digits are kept)
ParseFloat(s) ==
  LET ip   == DigitPrefix(s)
      rest == SubSeq(s, Len(ip) + 1, Len(s))
      fp   == IF rest # <<>> /\ Head(rest) = "." THEN DigitPrefix(Tail(rest)) ELSE <<>>
      f2   == SubSeq(fp \o <<"0", "0">>, 1, 2)
  IN  IF ip = <<>> /\ fp = <<>> THEN [nan |-> TRUE, val |-> 0]
      ELSE [nan |-> FALSE, val |-> 100 * DigitsValue(ip) + DigitsValue(f2)]

\* variant: the column cutting the extra digits off instead of rounding
Numeric2Trunc(q) == q.n \div q.d

\* a NUMERIC(10,2) column storing the JS number q = n/d cents: rounded half up
Numeric2(q) == (2 * q.n + q.d) \div (2 * q.d)

(* ------------------------------ employees ------------------------------ *)

EmployeeOrder == <<"e1", "e2", "e3", "e4", "e5">>

EmployeeIds == {EmployeeOrder[i] : i \in 1..Len(EmployeeOrder)}

NoRates == <<NoNum, NoNum, NoNum, NoNum, NoNum>>

\* the employees table: three active project employees (one with absent and zero
\* rates), an active hourly employee and an inactive project employee
EmployeesTable ==
  [id \in EmployeeIds |->
     CASE id = "e1" -> [name |-> "Ann", status |-> "active", pay_scale_type |-> "project",
                        hourly_rate |-> NoNum,
                        project_rate |-> <<3000, 2000, 1500, 1200, 1000>>]
       [] id = "e2" -> [name |-> "Bob", status |-> "active", pay_scale_type |-> "project",
                        hourly_rate |-> NoNum,
                        project_rate |-> <<NoNum, 2000, 0, 1200, 1000>>]
       [] id = "e3" -> [name |-> "Eve", status |-> "active", pay_scale_type |-> "project",
                        hourly_rate |-> NoNum,
                        project_rate |-> <<2500, 1255, 1000, NoNum, NoNum>>]
       [] id = "e4" -> [name |-> "Cal", status |-> "active", pay_scale_type |-> "hourly",
                        hourly_rate |-> 2000,
                        project_rate |-> NoRates]
       [] OTHER     -> [name |-> "Dan", status |-> "inactive", pay_scale_type |-> "project",
                        hourly_rate |-> NoNum,
                        project_rate |-> <<3000, 2000, 1500, 1200, 1000>>]]

SeqToSet(s) == {s[i] : i \in 1..Len(s)}

(* ---------------------------- app_settings ----------------------------- *)

FirstTimeKey == "first_time_bonus_percentage"
QuotedByKey == "quoted_by_bonus_percentage"

\* no row with that setting_key
NoRow == <<"no row">>

\* the table the migrations create: the first-time row '30', no quoted-by row
SettingsInit == [k \in {FirstTimeKey, QuotedByKey} |->
                   IF k = FirstTimeKey THEN <<"3", "0">> ELSE NoRow]

\* what the admin can leave in a percentage input of the settings screen
\* (type=number, min 0, max 100; the field may be emptied)
SettingInputs == {<<>>, <<"0">>, <<"5", "0">>, <<"2", ".", "5">>}

(* ------------------------ project webhook: serve ----------------------- *)

\* a backend query of the handler that fails in this call ("none": all succeed)
Faults == {"none", "employees", "quotedBy", "setting", "check", "insert"}

\* employees_assigned of the requests: one, two and three project employees, and
\* a list with a name nobody has
AssignedLists == {<<"Ann">>, <<"Bob">>, <<"Ann", "Bob">>, <<"Ann", "Bob", "Eve">>,
                  <<"Ann", "Xan">>}

\* requests that pass validation and resolve at least one employee, quoted by
\* nobody or by an assigned employee
MainPayloads ==
  [project_value : {100000}, project_title : {"Roof"},
   quoted_by_name : {"", "Ann"}, first_time : BOOLEAN,
   employees_assigned : AssignedLists, job_id : {"", "JOB-42"}]

\* requests quoted by an employee who is not assigned
QuotedByOtherPayloads ==
  [project_value : {100000}, project_title : {"Roof"},
   quoted_by_name : {"Cal"}, first_time : BOOLEAN,
   employees_assigned : {<<"Bob">>, <<"Ann", "Bob">>}, job_id : {"", "JOB-42"}]

\* a project value whose shares do not fall on a whole cent
OddPayloads ==
  [project_value : {33333}, project_title : {"Roof"},
   quoted_by_name : {"", "Ann"}, first_time : BOOLEAN,
   employees_assigned : {<<"Ann", "Bob">>, <<"Ann", "Bob", "Eve">>}, job_id : {""}]

\* a quoted-by name nobody has
UnknownQuotedByPayloads ==
  [project_value : {100000}, project_title : {"Roof"},
   quoted_by_name : {"Zed"}, first_time : BOOLEAN,
   employees_assigned : {<<"Ann">>}, job_id : {"", "JOB-42"}]

BadPayload(value, title, assigned) ==
  [project_value |-> value, project_title |-> title, quoted_by_name |-> "Ann",
   first_time |-> TRUE, employees_assigned |-> assigned, job_id |-> "JOB-42"]

\* requests with a missing or falsy required field, or no resolvable employee
BadPayloads ==
  {BadPayload(0, "Roof", <<"Ann">>), BadPayload(100000, "", <<"Ann">>),
   BadPayload(100000, "Roof", <<>>), BadPayload(100000, "Roof", <<"Cal", "Dan">>)}

Payloads == MainPayloads \cup QuotedByOtherPayloads \cup OddPayloads
            \cup UnknownQuotedByPayloads \cup BadPayloads

\* the requests during which a backend query fails
FaultPayloads ==
  [project_value : {100000}, project_title : {"Roof"},
   quoted_by_name : {"Ann"}, first_time : BOOLEAN,
   employees_assigned : {<<"Ann", "Bob">>}, job_id : {"JOB-42"}]

\* if (!payload.project_value || !payload.project_title || !payload.employees_assigned?.length)
MissingRequiredFields(p) ==
  p.project_value = 0 \/ p.project_title = "" \/ Len(p.employees_assigned) = 0

\* .in('name', employees_assigned).eq('status','active').eq('pay_scale_type','project')
MatchesAssigned(emps, p, id) ==
  /\ emps[id].name \in SeqToSet(p.employees_assigned)
  /\ emps[id].status = "active"
  /\ emps[id].pay_scale_type = "project"

FindEmployees(emps, p) ==
  LET Hit(id) == MatchesAssigned(emps, p, id) IN SelectSeq(EmployeeOrder, Hit)

\* variant: a lookup that takes the first of several rows (limit(1))
FindQuotedByFirst(emps, p, fault) ==
  LET Hit(id) == emps[id].name = p.quoted_by_name
      hits    == SelectSeq(EmployeeOrder, Hit)
  IN  IF p.quoted_by_name = "" \/ fault = "quotedBy" \/ hits = <<>>
      THEN NULL
      ELSE Head(hits)

\* .eq('name', quoted_by_name).maybeSingle(): the employee's id, NULL when the name
\* is empty, matches no row, matches several rows (an error) or the query fails
FindQuotedBy(emps, p, fault) ==
  LET hits == {id \in EmployeeIds : emps[id].name = p.quoted_by_name}
  IN  IF p.quoted_by_name = "" \/ fault = "quotedBy" \/ Cardinality(hits) # 1
      THEN NULL
      ELSE CHOOSE id \in hits : TRUE

\* const collaboratorsCount = employees.length
CollaboratorsCount(found, p) == Len(found)

\* variant: a switch without the default branch (rate stays 0 above 5)
WebhookRateNoSaturation(e, c) == IF c \in 1..5 THEN OrZero(e.project_rate[c]) ELSE 0

\* switch (collaboratorsCount) { case 1: ... default: project_rate_5_members }
WebhookRate(e, c) ==
  CASE c = 1 -> OrZero(e.project_rate[1])
    [] c = 2 -> OrZero(e.project_rate[2])
    [] c = 3 -> OrZero(e.project_rate[3])
    [] c = 4 -> OrZero(e.project_rate[4])
    [] c = 5 -> OrZero(e.project_rate[5])
    [] OTHER -> OrZero(e.project_rate[5])

\* const baseAmount = (payload.project_value * rate) / 100
BaseAmount(p, rate) == [n |-> p.project_value * rate, d |-> 10000]

\* variant: the text stored as it came, empty or not
OrNullKeep(s) == s

\* text || null
OrNull(s) == IF s = "" THEN NULL ELSE s

\* the regularPayout object of one employee
RegularPayout(emps, p, id, c, q) ==
  [employee_id |-> id,
   employee_name |-> <<emps[id].name, "">>,
   calculation_type |-> "project",
   amount |-> BaseAmount(p, WebhookRate(emps[id], c)),
   rate |-> WebhookRate(emps[id], c),
   project_value |-> p.project_value,
   hours_worked |-> NoNum,
   collaborators_count |-> c,
   project_title |-> p.project_title,
   quoted_by_id |-> q,
   quoted_by_name |-> IF q # NULL THEN emps[q].name ELSE OrNull(p.quoted_by_name),
   is_first_time |-> FALSE,
   source |-> "auto",
   job_id |-> OrNull(p.job_id)]

\* variant: a loop without the rate === 0 skip
RECURSIVE RegularPayoutsKeepZero(_, _, _, _, _)
RegularPayoutsKeepZero(emps, p, found, c, q) ==
  IF found = <<>> THEN <<>>
  ELSE <<RegularPayout(emps, p, Head(found), c, q)>>
       \o RegularPayoutsKeepZero(emps, p, Tail(found), c, q)

\* the payout loop: employees whose rate is 0 are skipped (continue)
RECURSIVE RegularPayouts(_, _, _, _, _)
RegularPayouts(emps, p, found, c, q) ==
  IF found = <<>> THEN <<>>
  ELSE (IF WebhookRate(emps[Head(found)], c) = 0 THEN <<>>
        ELSE <<RegularPayout(emps, p, Head(found), c, q)>>)
       \o RegularPayouts(emps, p, Tail(found), c, q)

\* let bonusRate = dflt; if (error) ... else if (data) bonusRate = parseFloat(value) || dflt
BonusRate(settings, key, dflt, fault) ==
  IF fault = "setting" \/ settings[key] = NoRow THEN dflt
  ELSE LET f == ParseFloat(settings[key])
       IN  IF f.nan \/ f.val = 0 THEN dflt ELSE f.val

\* const bonusAmount = (payload.project_value * bonusRate) / 100
BonusAmount(p, rate) == [n |-> p.project_value * rate, d |-> 10000]

\* the row pushed for the quoted-by employee
BonusPayout(emps, p, c, q, rate, suffix, first) ==
  [employee_id |-> q,
   employee_name |-> <<emps[q].name, suffix>>,
   calculation_type |-> "project",
   amount |-> BonusAmount(p, rate),
   rate |-> rate,
   project_value |-> p.project_value,
   hours_worked |-> NoNum,
   collaborators_count |-> c,
   project_title |-> p.project_title,
   quoted_by_id |-> q,
   quoted_by_name |-> emps[q].name,
   is_first_time |-> first,
   source |-> "auto",
   job_id |-> OrNull(p.job_id)]

FirstTimeSuffix == " (First Time Bonus)"
QuotedBySuffix == " (Quoted By Bonus)"

\* variant: the first-time block guarded by quotedByEmployee alone
FirstTimeBonusAlways(emps, settings, p, c, q, fault) ==
  IF q # NULL
  THEN <<BonusPayout(emps, p, c, q, BonusRate(settings, FirstTimeKey, 3000, fault),
                     FirstTimeSuffix, TRUE)>>
  ELSE <<>>

\* if (payload.first_time && quotedByEmployee) { ... }
FirstTimeBonus(emps, settings, p, c, q, fault) ==
  IF p.first_time /\ q # NULL
  THEN <<BonusPayout(emps, p, c, q, BonusRate(settings, FirstTimeKey, 3000, fault),
                     FirstTimeSuffix, TRUE)>>
  ELSE <<>>

\* if (!payload.first_time && quotedByEmployee) { ... }
QuotedByBonus(emps, settings, p, c, q, fault) ==
  IF ~p.first_time /\ q # NULL
  THEN <<BonusPayout(emps, p, c, q, BonusRate(settings, QuotedByKey, 200, fault),
                     QuotedBySuffix, FALSE)>>
  ELSE <<>>

\* the payouts array at line 218
PayoutLines(emps, settings, p, found, q, fault) ==
  LET c == CollaboratorsCount(found, p)
  IN  RegularPayouts(emps, p, found, c, q)
      \o FirstTimeBonus(emps, settings, p, c, q, fault)
      \o QuotedByBonus(emps, settings, p, c, q, fault)

\* .eq('job_id', job_id).eq('source','auto').in('employee_id', employeeIds)
ExistingPayouts(table, p, found) ==
  {i \in 1..Len(table) : /\ table[i].job_id = p.job_id
                         /\ table[i].source = "auto"
                         /\ table[i].employee_id \in SeqToSet(found)}

\* the columns an insert does not name: clock_in_time, clock_out_time and
\* edit_reason are NULL, is_edited is DEFAULT false
EditColumns ==
  [clock_in_time |-> NoTime, clock_out_time |-> NoTime, edit_reason |-> NULL,
   is_edited |-> FALSE]

\* the insert: each NUMERIC(10,2) column rounds what it is given, and the columns
\* that are not named take their defaults
StoredRow(line) == [line EXCEPT !.amount = Numeric2(line.amount)] @@ EditColumns

StoredRows(lines) == [i \in 1..Len(lines) |-> StoredRow(lines[i])]

Reply(status, error, found, q, rows) ==
  [status |-> status, error |-> error, found |-> found, quoted_by |-> q,
   rows |-> rows]

\* variant: an insert that keeps its rows although it reports an error
InsertOnFailure(lines, fault) == StoredRows(lines)

\* .from('payouts').insert(payouts): one statement, all rows or (on error) none
InsertedRows(lines, fault) == IF fault = "insert" THEN <<>> ELSE StoredRows(lines)

\* the handler of a POST, from validation to the response
Serve(emps, settings, table, p, fault) ==
  IF MissingRequiredFields(p)
  THEN Reply(400, "Missing required fields", <<>>, NULL, <<>>)
  ELSE IF fault = "employees"
  THEN Reply(500, "Failed to fetch employees", <<>>, NULL, <<>>)
  ELSE
  LET found == FindEmployees(emps, p) IN
  IF found = <<>>
  THEN Reply(400, "No matching project-based employees found", <<>>, NULL, <<>>)
  ELSE
  LET q     == FindQuotedBy(emps, p, fault)
      lines == PayoutLines(emps, settings, p, found, q, fault)
  IN
  IF lines = <<>>
  THEN Reply(400, "No payouts could be calculated", found, q, <<>>)
  ELSE IF p.job_id # "" /\ fault = "check"
  THEN Reply(500, "Failed to check for duplicates", found, q, <<>>)
  ELSE IF p.job_id # "" /\ ExistingPayouts(table, p, found) # {}
  THEN Reply(409, "Duplicate payouts", found, q, <<>>)
  ELSE IF fault = "insert"
  THEN Reply(500, "Failed to create payouts", found, q, InsertedRows(lines, fault))
  ELSE Reply(200, "", found, q, InsertedRows(lines, fault))

\* the last operation: what was asked, the answer, and the number of payouts rows
\* before it
NoCall == [op |-> "none", payload |-> <<>>, fault |-> "none", status |-> 0,
           error |-> "", found |-> <<>>, quoted_by |-> NULL, before |-> 0]

\* one POST /project-webhook, start to response
Webhook(p, fault) ==
  /\ nOps < MaxOps
  /\ LET r == Serve(employees, app_settings, payouts, p, fault)
     IN  /\ payouts' = payouts \o r.rows
         /\ call' = [op |-> "webhook", payload |-> p, fault |-> fault,
                     status |-> r.status, error |-> r.error, found |-> r.found,
                     quoted_by |-> r.quoted_by, before |-> Len(payouts)]
  /\ nOps' = nOps + 1
  /\ UNCHANGED <<employees, app_settings, rateIn, rateOut, timeVars, pure,
               inflight>>

(* ------------------ project webhook: concurrent calls ------------------ *)
(* The handler awaits each query, so another call can run between its      *)
(* duplicate query and its insert.  The reads before the duplicate query   *)
(* are of tables no call writes; they are taken together with it.          *)

\* the calls in progress at the same time
WebhookCalls == {"w1", "w2"}

\* what the calls ask: one job, not quoted by anybody, for any list of assignees
RacePayloads ==
  {p \in MainPayloads : p.job_id = "JOB-42" /\ p.quoted_by_name = "" /\ ~p.first_time}

\* variant: CREATE UNIQUE INDEX on (job_id, employee_id)
InsertAcceptedUnique(table, rows) ==
  \A i \in 1..Len(rows), j \in 1..Len(table) :
    ~(table[j].job_id = rows[i].job_id /\ table[j].employee_id = rows[i].employee_id)

\* idx_payouts_job_id is a plain index: no insert is refused for the rows the
\* table already holds
InsertAccepted(table, rows) == TRUE

\* a call from its start to the answer of the duplicate query: answered at once
\* when it is rejected, otherwise left holding the rows it is about to insert
WebhookCheck(w, p) ==
  /\ w \notin DOMAIN inflight
  /\ LET r == Serve(employees, app_settings, payouts, p, "none")
     IN  /\ inflight' = inflight @@
                        (w :> [pc |-> IF r.status = 200 THEN "checked" ELSE "done",
                               payload |-> p, status |-> r.status, rows |-> r.rows,
                               seen |-> Len(payouts)])
         /\ call' = IF r.status = 200 THEN call
                    ELSE [op |-> "webhook", payload |-> p, fault |-> "none",
                          status |-> r.status, error |-> r.error, found |-> r.found,
                          quoted_by |-> r.quoted_by, before |-> Len(payouts)]
  /\ UNCHANGED <<employees, app_settings, payouts, nOps, rateIn, rateOut, timeVars, pure>>

\* the insert of a call that passed the duplicate query, and its response
WebhookInsert(w) ==
  /\ w \in DOMAIN inflight
  /\ inflight[w].pc = "checked"
  /\ LET rows == inflight[w].rows
         ok   == InsertAccepted(payouts, rows)
     IN  /\ payouts' = IF ok THEN payouts \o rows ELSE payouts
         /\ inflight' = [inflight EXCEPT ![w].pc = "done",
                                         ![w].status = IF ok THEN 200 ELSE 500]
         /\ call' = [NoCall EXCEPT !.op = "webhook", !.payload = inflight[w].payload,
                                   !.status = IF ok THEN 200 ELSE 500,
                                   !.error = IF ok THEN "" ELSE "Failed to create payouts",
                                   !.before = Len(payouts)]
  /\ UNCHANGED <<employees, app_settings, nOps, rateIn, rateOut, timeVars, pure>>

(* --------------------------- settings screen --------------------------- *)

\* handleSettingUpdate: .update({ setting_value: value }).eq('setting_key', key)
\* changes the row if there is one; no row is created
UpdatedSettings(settings, key, value) ==
  IF settings[key] = NoRow THEN settings ELSE [settings EXCEPT ![key] = value]

HandleSettingUpdate(key, value) ==
  /\ nOps < MaxOps
  /\ app_settings' = UpdatedSettings(app_settings, key, value)
  /\ call' = [NoCall EXCEPT !.op = "setting", !.payload = <<key, value>>,
                             !.status = 200, !.before = Len(payouts)]
  /\ nOps' = nOps + 1
  /\ UNCHANGED <<employees, payouts, rateIn, rateOut, timeVars, pure,
               inflight>>

(* ------------------- manual calculator: calculatePayouts --------------- *)

\* "HH:mm" of a time input: split(':').map(Number), then hour * 60 + minute
MinutesOfDay(t) ==
  LET hh == DigitPrefix(t)
      mm == SubSeq(t, Len(hh) + 2, Len(t))
  IN  DigitsValue(hh) * 60 + DigitsValue(mm)

\* the value of a time input: "HH:mm"
TimeText(h, m) ==
  <<Digits[(h \div 10) + 1], Digits[(h % 10) + 1], ":",
    Digits[(m \div 10) + 1], Digits[(m % 10) + 1]>>

\* variant: the difference taken without the overnight correction
CalculateHoursNoWrap(startTime, endTime) ==
  IF startTime = <<>> \/ endTime = <<>> THEN [n |-> 0, d |-> 60]
  ELSE [n |-> MinutesOfDay(endTime) - MinutesOfDay(startTime), d |-> 60]

\* calculateHours, manual branch: minutes between start and end, an end before
\* the start being on the next day; 0 when a time is not entered
CalculateHours(startTime, endTime) ==
  IF startTime = <<>> \/ endTime = <<>> THEN [n |-> 0, d |-> 60]
  ELSE LET startMinutes == MinutesOfDay(startTime)
           endMinutes   == MinutesOfDay(endTime)
           totalMinutes == endMinutes - startMinutes
       IN  [n |-> IF totalMinutes < 0 THEN (24 * 60) - startMinutes + endMinutes
                  ELSE totalMinutes,
            d |-> 60]

\* fetchEmployees: .eq('status', 'active')
LoadedEmployees(emps) == {id \in EmployeeIds : emps[id].status = "active"}

\* getEligibleEmployees: the employees the form lets the admin select
EligibleEmployees(emps, calculationType) ==
  {id \in LoadedEmployees(emps) : emps[id].pay_scale_type = calculationType}

\* switch (collaborationCount) { case 1: ... default: project_rate_5_members }
CalcRate(e, c) ==
  CASE c = 1 -> OrZero(e.project_rate[1])
    [] c = 2 -> OrZero(e.project_rate[2])
    [] c = 3 -> OrZero(e.project_rate[3])
    [] c = 4 -> OrZero(e.project_rate[4])
    [] c = 5 -> OrZero(e.project_rate[5])
    [] OTHER -> OrZero(e.project_rate[5])

\* parseFloat(projectValue) || 0, in cents
ProjectVal(in) == ParseFloat(in.projectValue).val

\* one entry of results for a selected employee: it is pushed whatever the rate
CalcResult(emps, in, id) ==
  LET e == emps[id]
      c == Len(in.selectedEmployees)
  IN  IF in.calculationType = "hourly" /\ e.pay_scale_type = "hourly"
      THEN LET h == CalculateHours(in.startTime, in.endTime)
           IN  [employeeId |-> id, employeeName |-> <<e.name, "">>,
                amount |-> [n |-> OrZero(e.hourly_rate) * h.n, d |-> h.d],
                rate |-> OrZero(e.hourly_rate)]
      ELSE IF in.calculationType = "project" /\ e.pay_scale_type = "project"
      THEN [employeeId |-> id, employeeName |-> <<e.name, "">>,
            amount |-> [n |-> ProjectVal(in) * CalcRate(e, c), d |-> 10000],
            rate |-> CalcRate(e, c)]
      ELSE [employeeId |-> id, employeeName |-> <<e.name, "">>,
            amount |-> [n |-> 0, d |-> 1], rate |-> 0]

\* selectedEmployees.forEach: an id that is not in the loaded list is passed over
RECURSIVE CalcResults(_, _, _)
CalcResults(emps, in, ids) ==
  IF ids = <<>> THEN <<>>
  ELSE (IF Head(ids) \in LoadedEmployees(emps)
        THEN <<CalcResult(emps, in, Head(ids))>> ELSE <<>>)
       \o CalcResults(emps, in, Tail(ids))

\* if (isFirstTime && quotedById && calculationType === 'project'): 30% to the
\* quoted-by employee
CalcFirstTimeBonus(emps, in) ==
  IF /\ in.isFirstTime
     /\ in.quotedById # ""
     /\ in.calculationType = "project"
     /\ in.quotedById \in LoadedEmployees(emps)
  THEN <<[employeeId |-> in.quotedById,
          employeeName |-> <<emps[in.quotedById].name, FirstTimeSuffix>>,
          amount |-> [n |-> ProjectVal(in) * 3000, d |-> 10000],
          rate |-> 3000]>>
  ELSE <<>>

\* x || null on a number
ZeroToNull(x) == IF x = 0 THEN NoNum ELSE x

\* variant: project_value and hours_worked taken from the form whatever the type
PayoutRecordAnyType(emps, in, result) ==
  [employee_id |-> result.employeeId,
   employee_name |-> result.employeeName,
   calculation_type |-> in.calculationType,
   amount |-> result.amount,
   rate |-> result.rate,
   project_value |-> ZeroToNull(ProjectVal(in)),
   hours_worked |-> LET h == CalculateHours(in.startTime, in.endTime)
                    IN  ZeroToNull(Numeric2([n |-> 100 * h.n, d |-> h.d])),
   collaborators_count |-> Len(in.selectedEmployees),
   project_title |-> OrNull(in.projectTitle),
   quoted_by_id |-> OrNull(in.quotedById),
   quoted_by_name |-> IF in.quotedById \in LoadedEmployees(emps)
                      THEN emps[in.quotedById].name ELSE NULL,
   is_first_time |-> in.isFirstTime,
   source |-> "manual",
   job_id |-> NULL]

\* payoutRecords: one row per result
PayoutRecord(emps, in, result) ==
  [employee_id |-> result.employeeId,
   employee_name |-> result.employeeName,
   calculation_type |-> in.calculationType,
   amount |-> result.amount,
   rate |-> result.rate,
   project_value |-> IF in.calculationType = "project"
                     THEN ZeroToNull(ProjectVal(in)) ELSE NoNum,
   hours_worked |-> IF in.calculationType = "hourly"
                    THEN LET h == CalculateHours(in.startTime, in.endTime)
                         IN  ZeroToNull(Numeric2([n |-> 100 * h.n, d |-> h.d]))
                    ELSE NoNum,
   collaborators_count |-> Len(in.selectedEmployees),
   project_title |-> OrNull(in.projectTitle),
   quoted_by_id |-> OrNull(in.quotedById),
   quoted_by_name |-> IF in.quotedById \in LoadedEmployees(emps)
                      THEN emps[in.quotedById].name ELSE NULL,
   is_first_time |-> in.isFirstTime,
   source |-> "manual",
   job_id |-> NULL]

CalcRecords(emps, in) ==
  LET results == CalcResults(emps, in, in.selectedEmployees) \o CalcFirstTimeBonus(emps, in)
  IN  [i \in 1..Len(results) |-> PayoutRecord(emps, in, results[i])]

\* what the form holds when Calculate Payouts is pressed: project mode
ProjectInputs ==
  [calculationType : {"project"},
   selectedEmployees : {<<"e1">>, <<"e2">>, <<"e1", "e2">>, <<"e1", "e2", "e3">>},
   projectValue : {<<"1", "0", "0", "0">>}, projectTitle : {"Roof"},
   quotedById : {"", "e1"}, isFirstTime : BOOLEAN,
   startTime : {<<>>}, endTime : {<<>>}]
  \cup
  [calculationType : {"project"}, selectedEmployees : {<<"e1", "e2">>},
   projectValue : {<<"3", "3", "3", ".", "3", "3">>, <<"0">>}, projectTitle : {""},
   quotedById : {"e4"}, isFirstTime : {TRUE},
   startTime : {<<>>}, endTime : {<<>>}]

\* hourly mode with start and end times typed in
HourlyInputs ==
  [calculationType : {"hourly"}, selectedEmployees : {<<"e4">>},
   projectValue : {<<>>}, projectTitle : {""},
   quotedById : {""}, isFirstTime : {FALSE},
   startTime : {<<"2", "2", ":", "0", "0">>, <<"0", "9", ":", "0", "0">>},
   endTime : {<<"0", "6", ":", "0", "0">>, <<"1", "7", ":", "3", "0">>}]

CalcInputs == ProjectInputs \cup HourlyInputs

\* the button is disabled without a selection, without a project value (project
\* mode) or without both times (hourly mode); only eligible employees can be selected
CanCalculate(emps, in) ==
  /\ in.selectedEmployees # <<>>
  /\ SeqToSet(in.selectedEmployees) \subseteq EligibleEmployees(emps, in.calculationType)
  /\ IF in.calculationType = "project" THEN in.projectValue # <<>>
     ELSE in.startTime # <<>> /\ in.endTime # <<>>

\* calculatePayouts: compute the results and insert one row for each
CalculatePayouts(in, fault) ==
  /\ nOps < MaxOps
  /\ CanCalculate(employees, in)
  /\ LET rows == IF fault = "insert" THEN <<>> ELSE StoredRows(CalcRecords(employees, in))
     IN  /\ payouts' = payouts \o rows
         /\ call' = [NoCall EXCEPT !.op = "calculator", !.payload = in, !.fault = fault,
                                   !.status = IF fault = "insert" THEN 500 ELSE 200,
                                   !.before = Len(payouts)]
  /\ nOps' = nOps + 1
  /\ UNCHANGED <<employees, app_settings, rateIn, rateOut, timeVars, pure,
               inflight>>

(* ------------------------------ time clock ----------------------------- *)
(* Instants are whole minutes since an epoch midnight UTC; total_hours is  *)
(* kept in minutes (sixtieths of an hour), so hours = total_hours / 60.    *)

\* total_hours IS NULL (a stored total_hours can be negative)
NoHours == -1000000

\* two browsers showing the time clock: c1 is the admin's
Clients == {"c1", "c2"}

\* Date.getTimezoneOffset() of each browser, in minutes (UTC minus local time)
BrowserOffset(c) == IF c = "c1" THEN 300 ELSE 0

\* employees.timezone, default 'America/Chicago', as minutes behind UTC
EmployeeTzOffset == 300

MinutesPerDay == 1440

\* fortyEightHoursAgo.setHours(getHours() - 48)
FetchWindow == 48 * 60

\* the instant of Init: 09:00 UTC of day 1
StartOfClock == MinutesPerDay + 9 * 60

\* reason: the notes or the edit reason the admin saved with
NoTimeCall == [op |-> "none", id |-> 0, employee |-> "", outcome |-> "none",
               reason |-> ""]

TimeInit ==
  /\ time_entries = {}
  /\ timeEntries = [c \in Clients |-> {}]
  /\ reportEntries = {}
  /\ now = StartOfClock
  /\ tcall = NoTimeCall

NoPure == [fn |-> "none"]

\* the requests in progress, by caller: none
NoInflight == <<>>

\* the ids of the rows of a set of time entries
IdsOf(rows) == {r.id : r \in rows}

\* gen_random_uuid(): an id that no row and no loaded copy carries
FreshId ==
  LET used == IdsOf(time_entries) \cup IdsOf(reportEntries)
              \cup UNION {IdsOf(timeEntries[c]) : c \in Clients}
  IN  CHOOSE i \in 1..(Cardinality(used) + 1) : i \notin used

\* the row with that id
RowOf(rows, id) == CHOOSE r \in rows : r.id = id

\* variant: a trigger that leaves the row as the statement wrote it
CalculateTotalHoursOff(old, new) == new

\* calculate_total_hours, BEFORE UPDATE FOR EACH ROW
CalculateTotalHours(old, new) ==
  IF new.check_out_time # NoTime /\ old.check_out_time = NoTime
  THEN [new EXCEPT !.total_hours = new.check_out_time - new.check_in_time,
                   !.status = "checked_out"]
  ELSE new

\* UPDATE time_entries SET ... WHERE id = id: the table after the statement, the
\* row written going through the trigger; no row with that id, no change
UpdateTimeEntry(table, id, new) ==
  IF id \notin IdsOf(table) THEN table
  ELSE LET old == RowOf(table, id)
       IN  (table \ {old}) \cup {CalculateTotalHours(old, new)}

\* fetchTimeEntries of the time clock: .gte('check_in_time', fortyEightHoursAgo)
FetchedTimeEntries(table, t) == {r \in table : r.check_in_time >= t - FetchWindow}

\* the time clock's employee list: .eq('status','active').eq('pay_scale_type','hourly')
ClockEmployees(emps) ==
  {id \in EmployeeIds : emps[id].status = "active" /\ emps[id].pay_scale_type = "hourly"}

\* useEffect(() => { fetchEmployees(); fetchTimeEntries(); }, []): a browser
\* opening (or reloading) the time clock
FetchTimeEntries(c) ==
  /\ timeEntries' = [timeEntries EXCEPT ![c] = FetchedTimeEntries(time_entries, now)]
  /\ UNCHANGED <<time_entries, reportEntries, now, tcall>>
  /\ UNCHANGED <<employees, app_settings, payouts, call, nOps, rateIn, rateOut, pure,
               inflight>>

\* variant: a guard that looks at the status only
ExistingEntryAnyone(list, emp) == {r \in list : r.status = "checked_in"}

\* the entry of the loaded list that makes handleCheckIn stop
ExistingEntry(list, emp) ==
  {r \in list : r.employee_id = emp /\ r.status = "checked_in"}

\* time_entries.notes: the text, and for a note the hourly dialog writes
\* ("[Edited] <now> - <reason>") the mark and the instant; text "" is NULL
NoNotes == [edited |-> FALSE, at |-> NoTime, text |-> ""]
Notes(text) == [NoNotes EXCEPT !.text = text]
EditedNotes(t, reason) == [edited |-> TRUE, at |-> t, text |-> reason]

\* the row handleCheckIn inserts (the notes field of the time clock left empty:
\* notes || null)
CheckInRow(id, emp, t) ==
  [id |-> id, employee_id |-> emp, employee_name |-> employees[emp].name,
   check_in_time |-> t, check_out_time |-> NoTime,
   total_hours |-> NoHours, status |-> "checked_in", timezone_offset |-> NoNum,
   notes |-> NoNotes]

\* handleCheckIn for the selected employee
HandleCheckIn(c, emp) ==
  /\ nOps < MaxTimeOps
  /\ emp \in ClockEmployees(employees)
  /\ IF ExistingEntry(timeEntries[c], emp) # {}
     THEN /\ tcall' = [NoTimeCall EXCEPT !.op = "checkin", !.employee = emp, !.outcome = "rejected"]
          /\ UNCHANGED <<time_entries, timeEntries>>
     ELSE LET data == CheckInRow(FreshId, emp, now)
          IN  /\ time_entries' = time_entries \cup {data}
              /\ timeEntries' = [timeEntries EXCEPT ![c] = @ \cup {data}]
              /\ tcall' = [NoTimeCall EXCEPT !.op = "checkin", !.id = data.id, !.employee = emp,
                                             !.outcome = "done"]
  /\ nOps' = nOps + 1
  /\ UNCHANGED <<reportEntries, now>>
  /\ UNCHANGED <<employees, app_settings, payouts, call, rateIn, rateOut, pure,
               inflight>>

\* handleCheckIn in two steps, the insert being awaited: the step up to the
\* guard on the loaded list; seen is the number of rows the table held then
CheckInGuard(c, emp) ==
  /\ nOps < MaxTimeOps
  /\ emp \in ClockEmployees(employees)
  /\ c \in DOMAIN inflight => inflight[c].pc = "done"
  /\ LET stop == ExistingEntry(timeEntries[c], emp) # {}
         req  == [pc |-> IF stop THEN "done" ELSE "guarded", employee |-> emp,
                  outcome |-> IF stop THEN "rejected" ELSE "none",
                  seen |-> Cardinality(time_entries)]
     IN  /\ inflight' = IF c \in DOMAIN inflight THEN [inflight EXCEPT ![c] = req]
                        ELSE inflight @@ (c :> req)
         /\ tcall' = IF stop
                     THEN [NoTimeCall EXCEPT !.op = "checkin", !.employee = emp,
                                             !.outcome = "rejected"]
                     ELSE tcall
  /\ nOps' = nOps + 1
  /\ UNCHANGED <<time_entries, timeEntries, reportEntries, now>>
  /\ UNCHANGED <<employees, app_settings, payouts, call, rateIn, rateOut, pure>>

\* the insert of a check-in that passed the guard, and setTimeEntries
CheckInInsert(c) ==
  /\ c \in DOMAIN inflight
  /\ inflight[c].pc = "guarded"
  /\ LET data == CheckInRow(FreshId, inflight[c].employee, now)
     IN  /\ time_entries' = time_entries \cup {data}
         /\ timeEntries' = [timeEntries EXCEPT ![c] = @ \cup {data}]
         /\ tcall' = [NoTimeCall EXCEPT !.op = "checkin", !.id = data.id,
                                        !.employee = data.employee_id, !.outcome = "done"]
  /\ inflight' = [inflight EXCEPT ![c].pc = "done", ![c].outcome = "done"]
  /\ UNCHANGED <<reportEntries, now, nOps>>
  /\ UNCHANGED <<employees, app_settings, payouts, call, rateIn, rateOut, pure>>

\* handleCheckOut(entryId): the Check Out button of an entry the browser shows as
\* checked in; .update({check_out_time, status}).eq('id', entryId).select().single()
HandleCheckOut(c, id) ==
  /\ nOps < MaxTimeOps
  /\ id \in IdsOf({r \in timeEntries[c] : r.status = "checked_in"})
  /\ IF id \in IdsOf(time_entries)
     THEN LET old   == RowOf(time_entries, id)
              table == UpdateTimeEntry(time_entries, id,
                         [old EXCEPT !.check_out_time = now, !.status = "checked_out"])
          IN  /\ time_entries' = table
              /\ timeEntries' = [timeEntries EXCEPT ![c] =
                                   (@ \ {RowOf(@, id)}) \cup {RowOf(table, id)}]
              /\ tcall' = [NoTimeCall EXCEPT !.op = "checkout", !.id = id,
                                             !.employee = old.employee_id,
                                             !.outcome = "done"]
     ELSE /\ tcall' = [NoTimeCall EXCEPT !.op = "checkout", !.id = id,
                                         !.outcome = "failed"]
          /\ UNCHANGED <<time_entries, timeEntries>>
  /\ nOps' = nOps + 1
  /\ UNCHANGED <<reportEntries, now>>
  /\ UNCHANGED <<employees, app_settings, payouts, call, rateIn, rateOut, pure,
               inflight>>

\* what the wall clock can advance by between two operations: eight and a half
\* hours, two days
ClockSteps == {8 * 60 + 30, FetchWindow}

\* each step is taken at most once in a behaviour
StepTaken(d) ==
  LET elapsed == now - StartOfClock
  IN  IF d = FetchWindow THEN elapsed >= FetchWindow ELSE elapsed % FetchWindow >= d

\* time passing
Advance(d) ==
  /\ ~StepTaken(d)
  /\ now' = now + d
  /\ UNCHANGED <<time_entries, timeEntries, reportEntries, tcall>>
  /\ UNCHANGED <<employees, app_settings, payouts, call, nOps, rateIn, rateOut, pure,
               inflight>>

(* ------------------------ time clock: admin edits ---------------------- *)

\* what the admin types as the reason of an edit
EditReasons == {"", "late punch"}

\* the optional Notes field of the edit dialog of the time clock, left empty
NotesInputs == {""}

\* Date.setHours(h, m) in a browser whose offset is b: the same local calendar day,
\* the given local time of day
SetHours(d, minutes, b) == ((d - b) \div MinutesPerDay) * MinutesPerDay + minutes + b

\* todayEntries: the loaded entries whose check-in falls on the employee's current
\* local day
TodayEntries(list, t) ==
  {r \in list : (r.check_in_time - EmployeeTzOffset) \div MinutesPerDay
                  = (t - EmployeeTzOffset) \div MinutesPerDay}

\* what the admin types into a time field of the edit dialog ('' clears check-out)
TimeInputs == {<<"0", "9", ":", "0", "0">>, <<"1", "8", ":", "0", "0">>}
CheckOutInputs == {<<>>, <<"0", "8", ":", "0", "0">>, <<"1", "7", ":", "3", "0">>}

\* updateData applied to the stored row: check_in_time and notes always; check-out, hours
\* and status when a check-out was entered; all three cleared when the dialog's
\* entry had a check-out and none was entered
UpdateData(old, entry, newCheckIn, newCheckOut, notes) ==
  LET base == [old EXCEPT !.check_in_time = newCheckIn, !.notes = Notes(notes)]
  IN  IF newCheckOut # NoTime
      THEN [base EXCEPT !.check_out_time = newCheckOut,
                        !.total_hours = newCheckOut - newCheckIn,
                        !.status = "checked_out"]
      ELSE IF entry.check_out_time # NoTime
      THEN [base EXCEPT !.check_out_time = NoTime, !.total_hours = NoHours,
                        !.status = "checked_in"]
      ELSE base

\* the table after .update(updateData).eq('id', entry.id)
SavedTable(table, entry, newCheckIn, newCheckOut, notes) ==
  IF entry.id \notin IdsOf(table) THEN table
  ELSE UpdateTimeEntry(table, entry.id,
                       UpdateData(RowOf(table, entry.id), entry, newCheckIn, newCheckOut,
                                  notes))

\* EditTimeEntryDialog.handleSave: the times of day are set on the dates of the
\* entry the dialog was opened with; onSaved reloads the list
EditTimeEntrySave(c, id, checkIn, checkOut, notes) ==
  /\ nOps < MaxTimeOps
  /\ c = "c1"
  /\ id \in IdsOf(TodayEntries(timeEntries[c], now))
  /\ LET entry == RowOf(timeEntries[c], id)
         b     == BrowserOffset(c)
         newCheckInTime  == SetHours(entry.check_in_time, MinutesOfDay(checkIn), b)
         newCheckOutTime ==
           IF checkOut = <<>> THEN NoTime
           ELSE SetHours(IF entry.check_out_time # NoTime THEN entry.check_out_time
                         ELSE entry.check_in_time,
                         MinutesOfDay(checkOut), b)
         table == SavedTable(time_entries, entry, newCheckInTime, newCheckOutTime, notes)
     IN  /\ time_entries' = table
         /\ timeEntries' = [timeEntries EXCEPT ![c] = FetchedTimeEntries(table, now)]
         /\ tcall' = [NoTimeCall EXCEPT !.op = "edit", !.id = id,
                                        !.employee = entry.employee_id,
                                        !.reason = notes,
                                        !.outcome = IF checkOut = <<>> /\ entry.check_out_time # NoTime
                                                    THEN "cleared"
                                                    ELSE "done"]
  /\ nOps' = nOps + 1
  /\ UNCHANGED <<reportEntries, now>>
  /\ UNCHANGED <<employees, app_settings, payouts, call, rateIn, rateOut, pure,
               inflight>>

\* what addMinutes(date, null) gives: the date unchanged, or an Invalid Date whose
\* toISOString() throws (the two behaviours of date-fns releases)
NullOffsetOutcomes == {"zero", "invalid"}

\* the dialog version that works with entry.timezone_offset: the times of day are
\* set on the local check-in date, a check-out before the check-in is moved to the
\* next day
EditTimeEntrySaveOffset(c, id, checkIn, checkOut, notes, nullOffset) ==
  /\ nOps < MaxTimeOps
  /\ c = "c1"
  /\ id \in IdsOf(TodayEntries(timeEntries[c], now))
  /\ LET entry  == RowOf(timeEntries[c], id)
         b      == BrowserOffset(c)
         offset == OrZero(entry.timezone_offset)
         baseDate == entry.check_in_time - offset
         newLocalCheckIn == SetHours(baseDate, MinutesOfDay(checkIn), b)
         setOut == SetHours(baseDate, MinutesOfDay(checkOut), b)
         newLocalCheckOut == IF setOut < newLocalCheckIn THEN setOut + MinutesPerDay
                             ELSE setOut
         newCheckInTimeUTC  == newLocalCheckIn + offset
         newCheckOutTimeUTC == IF checkOut = <<>> THEN NoTime
                               ELSE newLocalCheckOut + offset
         table == SavedTable(time_entries, entry, newCheckInTimeUTC, newCheckOutTimeUTC,
                             notes)
     IN  IF entry.timezone_offset = NoNum /\ nullOffset = "invalid"
         THEN /\ tcall' = [NoTimeCall EXCEPT !.op = "editOffset", !.id = id,
                                             !.reason = notes, !.outcome = "failed"]
              /\ UNCHANGED <<time_entries, timeEntries>>
         ELSE /\ time_entries' = table
              /\ timeEntries' = [timeEntries EXCEPT ![c] = FetchedTimeEntries(table, now)]
              /\ tcall' = [NoTimeCall EXCEPT !.op = "editOffset", !.id = id,
                                             !.employee = entry.employee_id,
                                             !.reason = notes,
                                             !.outcome = IF checkOut = <<>> /\ entry.check_out_time # NoTime
                                                    THEN "cleared"
                                                         ELSE "done"]
  /\ nOps' = nOps + 1
  /\ UNCHANGED <<reportEntries, now>>
  /\ UNCHANGED <<employees, app_settings, payouts, call, rateIn, rateOut, pure,
               inflight>>

\* format(date, 'HH:mm') in a browser whose offset is b
FormatHHmm(t, b) ==
  LET m == (t - b) % MinutesPerDay
  IN  TimeText(m \div 60, m % 60)

\* the form the offset dialog opens with: the times of day of toLocalTime(...)
InitialForm(entry, b) ==
  LET offset == OrZero(entry.timezone_offset)
  IN  [check_in_time  |-> FormatHHmm(entry.check_in_time - offset, b),
       check_out_time |-> IF entry.check_out_time = NoTime THEN <<>>
                          ELSE FormatHHmm(entry.check_out_time - offset, b),
       notes |-> entry.notes.text]

\* Save pressed in the offset dialog with the form as it opened
EditTimeEntrySaveUnchanged(c, id, nullOffset) ==
  /\ id \in IdsOf(timeEntries[c])
  /\ LET form == InitialForm(RowOf(timeEntries[c], id), BrowserOffset(c))
     IN  EditTimeEntrySaveOffset(c, id, form.check_in_time, form.check_out_time,
                                 form.notes, nullOffset)

\* handleDelete of the edit dialog: .delete().eq('id', entry.id), then the reload
EditTimeEntryDelete(c, id) ==
  /\ nOps < MaxTimeOps
  /\ c = "c1"
  /\ id \in IdsOf(TodayEntries(timeEntries[c], now))
  /\ LET table == {r \in time_entries : r.id # id}
     IN  /\ time_entries' = table
         /\ timeEntries' = [timeEntries EXCEPT ![c] = FetchedTimeEntries(table, now)]
  /\ tcall' = [NoTimeCall EXCEPT !.op = "delete", !.id = id,
                                 !.outcome = "done"]
  /\ nOps' = nOps + 1
  /\ UNCHANGED <<reportEntries, now>>
  /\ UNCHANGED <<employees, app_settings, payouts, call, rateIn, rateOut, pure,
               inflight>>

(* ------------------------ time clock: the report ----------------------- *)

\* fetchTimeEntries of the report: .eq('status','checked_out').not('total_hours','is',null)
ReportRows(table) ==
  {r \in table : r.status = "checked_out" /\ r.total_hours # NoHours}

\* timeEntryReports: the loaded entries the report lists as hourly payouts
TimeEntryReports(list) ==
  {r \in list : r.status = "checked_out" /\ r.total_hours # NoHours /\ r.total_hours > 0}

\* fetchEmployees of the report: .eq('status', 'active'); employee?.hourly_rate || 0
ReportRate(emps, id) ==
  IF emps[id].status = "active" THEN OrZero(emps[id].hourly_rate) ELSE 0

\* const amount = (entry.total_hours || 0) * hourlyRate, in cents
ReportAmount(emps, r) == [n |-> r.total_hours * ReportRate(emps, r.employee_id), d |-> 60]

\* the report opening or reloading
LoadReport ==
  /\ reportEntries' = ReportRows(time_entries)
  /\ UNCHANGED <<time_entries, timeEntries, now, tcall>>
  /\ UNCHANGED <<employees, app_settings, payouts, call, nOps, rateIn, rateOut, pure,
               inflight>>

\* a datetime-local value (minutes of the browser's local time line) read by
\* new Date(text) in a browser whose offset is b
LocalDateTime(local, b) == local + b

\* what the admin enters as clock-in and clock-out: 04:00, 05:00 and 12:30 of day 1
\* in the admin's browser (09:00, 10:00 and 17:30 UTC)
DateTimeInputs == {MinutesPerDay + 4 * 60, MinutesPerDay + 5 * 60,
                   MinutesPerDay + 12 * 60 + 30}

\* calculateHours of the hourly dialog: hours > 0 ? hours : 0, in minutes
DialogHours(checkIn, checkOut) ==
  IF checkOut - checkIn > 0 THEN checkOut - checkIn ELSE 0

\* EditHourlyPayoutDialog.handleSave on a time entry of the report: refused without
\* a reason or when the hours are not positive; check_in_time, check_out_time,
\* total_hours and the note holding the reason written
EditHourlySave(id, clockInTime, clockOutTime, editReason) ==
  /\ nOps < MaxTimeOps
  /\ id \in IdsOf(TimeEntryReports(reportEntries))
  /\ LET b          == BrowserOffset("c1")
         checkIn    == LocalDateTime(clockInTime, b)
         checkOut   == LocalDateTime(clockOutTime, b)
         totalHours == DialogHours(checkIn, checkOut)
         table == IF id \notin IdsOf(time_entries) THEN time_entries
                  ELSE UpdateTimeEntry(time_entries, id,
                         [RowOf(time_entries, id) EXCEPT !.check_in_time = checkIn,
                                                         !.check_out_time = checkOut,
                                                         !.total_hours = totalHours,
                                                         !.notes = EditedNotes(now, editReason)])
     IN  IF editReason = "" \/ totalHours <= 0
         THEN /\ tcall' = [NoTimeCall EXCEPT !.op = "editHourly", !.id = id,
                                             !.reason = editReason, !.outcome = "rejected"]
              /\ UNCHANGED <<time_entries, reportEntries>>
         ELSE /\ time_entries' = table
              /\ reportEntries' = ReportRows(table)
              /\ tcall' = [NoTimeCall EXCEPT !.op = "editHourly", !.id = id,
                                             !.reason = editReason, !.outcome = "done"]
  /\ nOps' = nOps + 1
  /\ UNCHANGED <<timeEntries, now>>
  /\ UNCHANGED <<employees, app_settings, payouts, call, rateIn, rateOut, pure,
               inflight>>

\* deleteTimeEntry of the report
DeleteTimeEntry(id) ==
  /\ nOps < MaxTimeOps
  /\ id \in IdsOf(TimeEntryReports(reportEntries))
  /\ LET table == {r \in time_entries : r.id # id}
     IN  /\ time_entries' = table
         /\ reportEntries' = ReportRows(table)
  /\ tcall' = [NoTimeCall EXCEPT !.op = "reportDelete", !.id = id,
                                 !.outcome = "done"]
  /\ nOps' = nOps + 1
  /\ UNCHANGED <<timeEntries, now>>
  /\ UNCHANGED <<employees, app_settings, payouts, call, rateIn, rateOut, pure,
               inflight>>

(* ------------------------ report: payout edits ------------------------- *)
(* A payouts row is named by its place in the table.  The report reloads   *)
(* its list after every save (onSaved) and can be reloaded at any time, so *)
(* the row a dialog is opened on is the stored row; an empty number input  *)
(* ('') is NoNum, as the null it is sent as.                               *)

\* useState / useEffect([payout]): the form filled from the row
FormOf(payout) ==
  [amount |-> payout.amount, rate |-> payout.rate,
   project_value |-> payout.project_value, hours_worked |-> payout.hours_worked,
   collaborators_count |-> payout.collaborators_count]

\* the effect that recalculates the amount of a project row after an edit of another
\* field: (projectValue * rate) / 100 / Math.max(collabCount, 1), toFixed(2)
Recalculated(payout, form, lastEdited) ==
  IF payout.calculation_type # "project" \/ lastEdited = "amount" THEN form
  ELSE LET parsed      == IF form.collaborators_count = NoNum THEN 0
                          ELSE form.collaborators_count
           collabCount == IF parsed = 0 THEN 1 ELSE parsed
           divisor     == IF collabCount < 1 THEN 1 ELSE collabCount
       IN  IF \/ form.project_value = NoNum \/ form.project_value <= 0
              \/ form.rate = NoNum \/ form.rate <= 0
           THEN form
           ELSE [form EXCEPT !.amount =
                   Numeric2([n |-> form.project_value * form.rate,
                             d |-> 10000 * divisor])]

\* handleChange(key, value), followed by the effect
HandleChange(payout, form, key, value) ==
  Recalculated(payout, [form EXCEPT ![key] = value], key)

\* the inputs the dialog renders: Project Value for a project row, Hours Worked
\* for any other
FormKeys(payout) ==
  {"amount", "rate", "collaborators_count"}
  \cup (IF payout.calculation_type = "project" THEN {"project_value"}
        ELSE {"hours_worked"})

\* what the admin types into an input: nothing, or $50.00, 15%, $2000.00, 2.5 h, 2
FormValues(key) ==
  CASE key = "amount" -> {NoNum, 5000}
    [] key = "rate" -> {NoNum, 1500}
    [] key = "project_value" -> {NoNum, 200000}
    [] key = "hours_worked" -> {NoNum, 250}
    [] OTHER -> {NoNum, 2}

\* the update object of onSubmit
PayoutUpdate(payout, form) ==
  [amount |-> form.amount, rate |-> form.rate,
   collaborators_count |-> form.collaborators_count,
   project_value |-> IF payout.calculation_type = "project"
                     THEN form.project_value ELSE NoNum,
   hours_worked |-> IF payout.calculation_type = "project"
                    THEN NoNum ELSE form.hours_worked]

\* EditPayoutDialog.onSubmit on row i, after at most one input was changed
\* (key = "none": saved as opened); amount and rate are NOT NULL columns, so an
\* update that empties one fails and changes nothing
EditPayoutSubmit(i, key, value) ==
  /\ nOps < MaxOps
  /\ i \in 1..Len(payouts)
  /\ LET payout == payouts[i]
         form   == IF key = "none" THEN FormOf(payout)
                   ELSE HandleChange(payout, FormOf(payout), key, value)
         update == PayoutUpdate(payout, form)
         ok     == update.amount # NoNum /\ update.rate # NoNum
     IN  /\ key \in FormKeys(payout) \cup {"none"}
         /\ key # "none" => value \in FormValues(key)
         /\ payouts' = IF ok
                       THEN [payouts EXCEPT ![i] =
                               [@ EXCEPT !.amount = update.amount,
                                         !.rate = update.rate,
                                         !.collaborators_count = update.collaborators_count,
                                         !.project_value = update.project_value,
                                         !.hours_worked = update.hours_worked]]
                       ELSE payouts
         /\ call' = [NoCall EXCEPT !.op = "editPayout",
                                   !.payload = [form |-> form, lastEdited |-> key,
                                                value |-> value],
                                   !.status = IF ok THEN 200 ELSE 500,
                                   !.before = i]
  /\ nOps' = nOps + 1
  /\ UNCHANGED <<employees, app_settings, rateIn, rateOut, timeVars, pure,
               inflight>>

\* the dialog version that loads the employee's five rates when it opens on a
\* project row: maybeSingle() gives null when the employee row is gone
EmployeeRates(emps, payout) ==
  IF payout.calculation_type = "project" /\ payout.employee_id \in DOMAIN emps
  THEN emps[payout.employee_id].project_rate
  ELSE NoRates

\* its effect: after an edit of the collaborators count the amount is taken from
\* the employee's rate for that count (the rate field stays); after an edit of the
\* rate or the project value it is (projectValue * rate) / 100, toFixed(2)
RecalculatedRates(payout, form, lastEdited, employeeRates) ==
  IF payout.calculation_type # "project" THEN form
  ELSE IF form.project_value = NoNum \/ form.project_value <= 0 THEN form
  ELSE IF lastEdited = "collaborators_count" /\ employeeRates # NoRates
  THEN LET parsed      == IF form.collaborators_count = NoNum THEN 0
                          ELSE form.collaborators_count
           collabCount == IF parsed = 0 THEN 1 ELSE parsed
           appropriateRate == CalcRate([project_rate |-> employeeRates], collabCount)
       IN  IF appropriateRate > 0
           THEN [form EXCEPT !.amount =
                   Numeric2([n |-> form.project_value * appropriateRate, d |-> 10000])]
           ELSE form
  ELSE IF lastEdited \in {"rate", "project_value"} /\ form.rate # NoNum /\ form.rate > 0
  THEN [form EXCEPT !.amount =
          Numeric2([n |-> form.project_value * form.rate, d |-> 10000])]
  ELSE form

\* onSubmit of that version on row i, after at most one input was changed
EditPayoutSubmitRates(i, key, value) ==
  /\ nOps < MaxOps
  /\ i \in 1..Len(payouts)
  /\ LET payout == payouts[i]
         form   == IF key = "none" THEN FormOf(payout)
                   ELSE RecalculatedRates(payout, [FormOf(payout) EXCEPT ![key] = value],
                                          key, EmployeeRates(employees, payout))
         update == PayoutUpdate(payout, form)
         ok     == update.amount # NoNum /\ update.rate # NoNum
     IN  /\ key \in FormKeys(payout) \cup {"none"}
         /\ key # "none" => value \in FormValues(key)
         /\ payouts' = IF ok
                       THEN [payouts EXCEPT ![i] =
                               [@ EXCEPT !.amount = update.amount,
                                         !.rate = update.rate,
                                         !.collaborators_count = update.collaborators_count,
                                         !.project_value = update.project_value,
                                         !.hours_worked = update.hours_worked]]
                       ELSE payouts
         /\ call' = [NoCall EXCEPT !.op = "editPayoutRates",
                                   !.payload = [form |-> form, lastEdited |-> key,
                                                value |-> value],
                                   !.status = IF ok THEN 200 ELSE 500,
                                   !.before = i]
  /\ nOps' = nOps + 1
  /\ UNCHANGED <<employees, app_settings, rateIn, rateOut, timeVars, pure,
               inflight>>

\* EditHourlyPayoutDialog.handleSave on row i, which the report opens for hourly
\* rows: refused without both times, without a reason or with hours that are not
\* positive; otherwise the times, hours_worked, amount and the edit marks are written
EditHourlyPayoutSave(i, clockInTime, clockOutTime, editReason) ==
  /\ nOps < MaxOps
  /\ i \in 1..Len(payouts)
  /\ payouts[i].calculation_type = "hourly"
  /\ LET payout     == payouts[i]
         b          == BrowserOffset("c1")
         checkIn    == LocalDateTime(clockInTime, b)
         checkOut   == LocalDateTime(clockOutTime, b)
         totalHours == IF clockInTime = NoTime \/ clockOutTime = NoTime THEN 0
                       ELSE DialogHours(checkIn, checkOut)
         refused    == \/ clockInTime = NoTime \/ clockOutTime = NoTime
                       \/ editReason = ""
                       \/ totalHours <= 0
     IN  /\ payouts' = IF refused THEN payouts
                       ELSE [payouts EXCEPT ![i] =
                               [@ EXCEPT !.clock_in_time = checkIn,
                                         !.clock_out_time = checkOut,
                                         !.hours_worked =
                                            Numeric2([n |-> 100 * totalHours, d |-> 60]),
                                         !.amount =
                                            Numeric2([n |-> totalHours * payout.rate,
                                                      d |-> 60]),
                                         !.edit_reason = editReason,
                                         !.is_edited = TRUE]]
         /\ call' = [NoCall EXCEPT !.op = "editHourlyPayout",
                                   !.payload = <<clockInTime, clockOutTime, editReason>>,
                                   !.status = IF refused THEN 400 ELSE 200,
                                   !.before = i]
  /\ nOps' = nOps + 1
  /\ UNCHANGED <<employees, app_settings, rateIn, rateOut, timeVars, pure,
               inflight>>

(* --------------------------- team management -------------------------- *)

\* the id the next created employee gets (gen_random_uuid())
NewEmployeeId == "e6"

\* parseFloat(text) || null
ParseOrNull(text) ==
  LET f == ParseFloat(text)
  IN  IF f.nan \/ f.val = 0 THEN NoNum ELSE f.val

\* what the form holds at submit: the pay type, and the texts of the rate inputs
\* (the hourly input is rendered for hourly, the five tier inputs for project)
EmployeeFormInputs ==
  [name : {"Fay"}, status : {"active"}, pay_scale_type : {"hourly", "project"},
   hourly_rate : {<<>>, <<"2", "5">>},
   project_rate : {<< <<>>, <<>>, <<>>, <<>>, <<>> >>,
                   << <<"3", "0">>, <<"2", "0">>, <<"1", "5">>, <<>>, <<>> >>}]

\* employeeData laid over a row: the common columns, then hourly_rate alone for
\* hourly and the five project rates alone for project; the columns it does not
\* name keep what the row holds
EmployeeData(old, formData) ==
  LET base == [old EXCEPT !.name = formData.name, !.status = formData.status,
                          !.pay_scale_type = formData.pay_scale_type]
  IN  IF formData.pay_scale_type = "hourly"
      THEN [base EXCEPT !.hourly_rate = ParseOrNull(formData.hourly_rate)]
      ELSE [base EXCEPT !.project_rate =
                          [k \in 1..5 |-> ParseOrNull(formData.project_rate[k])]]

\* a row before its insert: every nullable column NULL
BlankEmployee ==
  [name |-> "", status |-> "active", pay_scale_type |-> "hourly",
   hourly_rate |-> NoNum, project_rate |-> NoRates]

\* a row that was deleted: no query finds it
DeletedEmployee ==
  [name |-> NULL, status |-> "deleted", pay_scale_type |-> "deleted",
   hourly_rate |-> NoNum, project_rate |-> NoRates]

\* EmployeeForm.handleSubmit: update of the employee the form was opened with (the
\* name kept), or insert of a new one
EmployeeFormSubmit(id, formData) ==
  /\ nOps < MaxOps
  /\ id \in DOMAIN employees => employees[id] # DeletedEmployee
  /\ IF id \in DOMAIN employees
     THEN employees' = [employees EXCEPT ![id] =
                          EmployeeData(@, [formData EXCEPT !.name = employees[id].name,
                                                           !.status = employees[id].status])]
     ELSE /\ id = NewEmployeeId
          /\ employees' = [e \in DOMAIN employees \cup {id} |->
                             IF e = id THEN EmployeeData(BlankEmployee, formData)
                             ELSE employees[e]]
  /\ call' = [NoCall EXCEPT !.op = "employeeForm", !.payload = formData,
                             !.status = 200, !.quoted_by = id, !.before = Len(payouts)]
  /\ nOps' = nOps + 1
  /\ UNCHANGED <<app_settings, payouts, rateIn, rateOut, timeVars, pure,
               inflight>>

\* variant: payouts.employee_id REFERENCES employees(id) ON DELETE CASCADE
PayoutsCascade(table, id) ==
  LET Kept(r) == r.employee_id # id IN SelectSeq(table, Kept)

\* what a delete of the employees row id does to payouts: employee_id is a plain
\* UUID column, no foreign key, so nothing
PayoutsOnEmployeeDelete(table, id) == table

\* the same for time_entries.employee_id
TimeEntriesOnEmployeeDelete(table, id) == table

\* EmployeeList.deleteEmployee: .from('employees').delete().eq('id', id)
DeleteEmployee(id) ==
  /\ nOps < MaxTimeOps
  /\ employees[id] # DeletedEmployee
  /\ employees' = [employees EXCEPT ![id] = DeletedEmployee]
  /\ payouts' = PayoutsOnEmployeeDelete(payouts, id)
  /\ time_entries' = TimeEntriesOnEmployeeDelete(time_entries, id)
  /\ call' = [NoCall EXCEPT !.op = "deleteEmployee", !.payload = <<id>>,
                             !.status = 200, !.before = Len(payouts)]
  /\ nOps' = nOps + 1
  /\ UNCHANGED <<timeEntries, reportEntries, now, tcall>>
  /\ UNCHANGED <<app_settings, rateIn, rateOut, pure,
               inflight>>

(* --------------------------- rate selection ---------------------------- *)

\* a NUMERIC(5,2) rate column: absent, zero or a percentage
RateValues == {NoNum, 0, 1000, 2550}

NotComputed == [webhook |-> NoNum, calc |-> NoNum]

\* the rate switch of the webhook on the drawn employee and collaborator count
SelectWebhookRate ==
  /\ rateIn.count > 0
  /\ rateOut.webhook = NoNum
  /\ rateOut' = [rateOut EXCEPT !.webhook = WebhookRate([project_rate |-> rateIn.rates],
                                                         rateIn.count)]
  /\ UNCHANGED <<employees, app_settings, payouts, call, nOps, rateIn, timeVars, pure,
               inflight>>

\* the rate switch of the calculator on the same inputs
SelectCalcRate ==
  /\ rateIn.count > 0
  /\ rateOut.calc = NoNum
  /\ rateOut' = [rateOut EXCEPT !.calc = CalcRate([project_rate |-> rateIn.rates],
                                                   rateIn.count)]
  /\ UNCHANGED <<employees, app_settings, payouts, call, nOps, rateIn, timeVars, pure,
               inflight>>

(* ---------------------------- specification ---------------------------- *)

NoRate == [rates |-> NoRates, count |-> 0]

Init ==
  /\ employees = EmployeesTable
  /\ app_settings = SettingsInit
  /\ payouts = <<>>
  /\ call = NoCall
  /\ nOps = 0
  /\ rateIn = NoRate
  /\ rateOut = NotComputed
  /\ TimeInit
  /\ inflight = NoInflight
  /\ pure = NoPure

Next ==
  \/ \E p \in Payloads : Webhook(p, "none")
  \/ \E p \in FaultPayloads, fault \in Faults \ {"none"} : Webhook(p, fault)
  \/ \E key \in {FirstTimeKey, QuotedByKey}, value \in SettingInputs :
       HandleSettingUpdate(key, value)
  \/ \E in \in CalcInputs : CalculatePayouts(in, "none")
  \/ \E in \in HourlyInputs : CalculatePayouts(in, "insert")

Spec == Init /\ [][Next]_vars

\* rate selection alone: an employee's five rates and a collaborator count are
\* drawn, then each of the two switches is applied
InitRate ==
  /\ employees = EmployeesTable
  /\ app_settings = SettingsInit
  /\ payouts = <<>>
  /\ call = NoCall
  /\ nOps = 0
  /\ rateIn \in [rates : [1..5 -> RateValues], count : 1..MaxCollab]
  /\ rateOut = NotComputed
  /\ TimeInit
  /\ inflight = NoInflight
  /\ pure = NoPure

NextRate == SelectWebhookRate \/ SelectCalcRate

SpecRate == InitRate /\ [][NextRate]_vars

(* --------------------- calculator: tracked hours ----------------------- *)
(* The form of the hourly calculator with "use tracked hours" on, kept in   *)
(* pure: the selected employees, the loaded entries and the selected ids.   *)

\* the form as it opens
TrackedForm == [fn |-> "tracked", selectedEmployees |-> <<>>, timeEntries |-> {},
                selectedTimeEntries |-> {}, results |-> <<>>]

\* fetchTimeEntries of the calculator: the completed entries of the selected
\* employees; nothing is loaded (the list stays) without a selection
CalcFetchTimeEntries(table, list, selectedEmployees) ==
  IF selectedEmployees = <<>> THEN list
  ELSE {r \in table : /\ r.employee_id \in SeqToSet(selectedEmployees)
                      /\ r.status = "checked_out"
                      /\ r.total_hours # NoHours}

\* entry?.total_hours || 0 for a selected id, in minutes
EntryHours(list, id) ==
  IF id \notin IdsOf(list) THEN 0
  ELSE LET h == RowOf(list, id).total_hours IN IF h = NoHours THEN 0 ELSE h

\* calculateHours, tracked branch: selectedTimeEntries.reduce over the loaded list
RECURSIVE TrackedHours(_, _)
TrackedHours(list, ids) ==
  IF ids = {} THEN 0
  ELSE LET id == CHOOSE x \in ids : TRUE
       IN  EntryHours(list, id) + TrackedHours(list, ids \ {id})

\* one entry of results in tracked mode: amount = rate * calculateHours()
TrackedResult(emps, form, id) ==
  LET e == emps[id]
  IN  IF e.pay_scale_type = "hourly"
      THEN [employeeId |-> id, employeeName |-> <<e.name, "">>,
            amount |-> [n |-> OrZero(e.hourly_rate)
                              * TrackedHours(form.timeEntries, form.selectedTimeEntries),
                        d |-> 60],
            rate |-> OrZero(e.hourly_rate)]
      ELSE [employeeId |-> id, employeeName |-> <<e.name, "">>,
            amount |-> [n |-> 0, d |-> 1], rate |-> 0]

RECURSIVE TrackedResults(_, _, _)
TrackedResults(emps, form, ids) ==
  IF ids = <<>> THEN <<>>
  ELSE (IF Head(ids) \in LoadedEmployees(emps)
        THEN <<TrackedResult(emps, form, Head(ids))>> ELSE <<>>)
       \o TrackedResults(emps, form, Tail(ids))

\* the rest of the form in tracked mode
TrackedInput(form) ==
  [calculationType |-> "hourly", selectedEmployees |-> form.selectedEmployees,
   projectValue |-> <<>>, projectTitle |-> "", quotedById |-> "", isFirstTime |-> FALSE,
   startTime |-> <<>>, endTime |-> <<>>]

\* payoutRecords in tracked mode: hours_worked: calculateHours() || null
TrackedRecords(emps, form) ==
  LET results == TrackedResults(emps, form, form.selectedEmployees)
      h       == TrackedHours(form.timeEntries, form.selectedTimeEntries)
  IN  [i \in 1..Len(results) |->
         [PayoutRecord(emps, TrackedInput(form), results[i])
            EXCEPT !.hours_worked = ZeroToNull(Numeric2([n |-> 100 * h, d |-> 60]))]]

\* toggleEmployeeSelection, and the effect that reloads the entries
ToggleEmployeeSelection(id) ==
  /\ pure.fn = "tracked"
  /\ id \in EligibleEmployees(employees, "hourly")
  /\ LET sel == IF id \in SeqToSet(pure.selectedEmployees)
                THEN SelectSeq(pure.selectedEmployees, LAMBDA x : x # id)
                ELSE Append(pure.selectedEmployees, id)
     IN  pure' = [pure EXCEPT !.selectedEmployees = sel,
                              !.timeEntries = CalcFetchTimeEntries(time_entries, @, sel)]
  /\ UNCHANGED <<employees, app_settings, payouts, call, nOps, rateIn, rateOut, timeVars,
               inflight>>

\* a click on an entry of the list
ToggleTimeEntry(id) ==
  /\ pure.fn = "tracked"
  /\ id \in IdsOf(pure.timeEntries)
  /\ pure' = [pure EXCEPT !.selectedTimeEntries =
                            IF id \in @ THEN @ \ {id} ELSE @ \cup {id}]
  /\ UNCHANGED <<employees, app_settings, payouts, call, nOps, rateIn, rateOut, timeVars,
               inflight>>

\* calculatePayouts with tracked hours: the button is disabled without a selected
\* employee or a selected entry
CalculateTracked ==
  /\ nOps < MaxOps
  /\ pure.fn = "tracked"
  /\ pure.selectedEmployees # <<>>
  /\ pure.selectedTimeEntries # {}
  /\ pure' = [pure EXCEPT !.results = TrackedResults(employees, pure, pure.selectedEmployees)]
  /\ payouts' = payouts \o StoredRows(TrackedRecords(employees, pure))
  /\ call' = [NoCall EXCEPT !.op = "calculatorTracked", !.payload = TrackedInput(pure),
                            !.status = 200, !.before = Len(payouts)]
  /\ nOps' = nOps + 1
  /\ UNCHANGED <<employees, app_settings, rateIn, rateOut, timeVars, inflight>>

(* ----------------------- time clock: specification --------------------- *)

\* the time clock on two browsers, the admin's edit dialogs and the report
NextClock ==
  \/ \E d \in ClockSteps : Advance(d)
  \/ \E c \in Clients : FetchTimeEntries(c)
  \/ \E c \in Clients, emp \in EmployeeIds : HandleCheckIn(c, emp)
  \/ \E c \in Clients : \E id \in IdsOf(timeEntries[c]) : HandleCheckOut(c, id)
  \/ \E c \in Clients : \E id \in IdsOf(timeEntries[c]),
        checkIn \in TimeInputs, checkOut \in CheckOutInputs, notes \in NotesInputs :
       EditTimeEntrySave(c, id, checkIn, checkOut, notes)
  \/ \E c \in Clients : \E id \in IdsOf(timeEntries[c]),
        checkIn \in TimeInputs, checkOut \in CheckOutInputs, notes \in NotesInputs,
        nullOffset \in NullOffsetOutcomes :
       EditTimeEntrySaveOffset(c, id, checkIn, checkOut, notes, nullOffset)
  \/ \E c \in Clients : \E id \in IdsOf(timeEntries[c]) : EditTimeEntryDelete(c, id)
  \/ LoadReport
  \/ \E id \in IdsOf(reportEntries), clockInTime \in DateTimeInputs,
        clockOutTime \in DateTimeInputs, editReason \in EditReasons :
       EditHourlySave(id, clockInTime, clockOutTime, editReason)
  \/ \E id \in IdsOf(reportEntries) : DeleteTimeEntry(id)

SpecClock == Init /\ [][NextClock]_vars

(* ----------------- payouts: inserts and report edits ------------------ *)

\* requests of the webhook that insert rows
EditPayloads ==
  {p \in MainPayloads : p.job_id = "" /\ p.quoted_by_name = "Ann" /\ p.first_time}

\* the calculator after the type was switched: the select resets the selection
\* and the results only, so the project value (or the times) typed before stay
SwitchedInputs ==
  [calculationType : {"hourly"}, selectedEmployees : {<<"e4">>},
   projectValue : {<<"1", "0", "0", "0">>}, projectTitle : {""},
   quotedById : {""}, isFirstTime : {FALSE},
   startTime : {<<"0", "9", ":", "0", "0">>}, endTime : {<<"1", "7", ":", "3", "0">>}]
  \cup
  [calculationType : {"project"}, selectedEmployees : {<<"e1">>},
   projectValue : {<<"1", "0", "0", "0">>}, projectTitle : {"Roof"},
   quotedById : {""}, isFirstTime : {FALSE},
   startTime : {<<"0", "9", ":", "0", "0">>}, endTime : {<<"1", "7", ":", "3", "0">>}]

NextEdit ==
  \/ \E p \in EditPayloads : Webhook(p, "none")
  \/ \E in \in SwitchedInputs \cup HourlyInputs : CalculatePayouts(in, "none")
  \/ \E i \in 1..Len(payouts) :
       \E key \in {"none", "amount", "rate", "project_value", "hours_worked",
                   "collaborators_count"} :
         \E value \in {NoNum} \cup FormValues(key) : EditPayoutSubmit(i, key, value)
  \/ \E i \in 1..Len(payouts) :
       \E clockInTime \in DateTimeInputs \cup {NoTime},
          clockOutTime \in DateTimeInputs \cup {NoTime},
          editReason \in EditReasons :
         EditHourlyPayoutSave(i, clockInTime, clockOutTime, editReason)

SpecEdit == Init /\ [][NextEdit]_vars

(* -------------------- the two payout edit dialogs --------------------- *)

\* project rows from the webhook, edited through either version of the dialog
NextDialog ==
  \/ \E p \in EditPayloads : Webhook(p, "none")
  \/ \E i \in 1..Len(payouts) :
       \E key \in {"none", "amount", "rate", "project_value", "collaborators_count"} :
         \E value \in {NoNum} \cup FormValues(key) : EditPayoutSubmit(i, key, value)
  \/ \E i \in 1..Len(payouts) :
       \E key \in {"none", "amount", "rate", "project_value", "collaborators_count"} :
         \E value \in {NoNum} \cup FormValues(key) : EditPayoutSubmitRates(i, key, value)

SpecDialog == Init /\ [][NextDialog]_vars

(* ------------------------ team management alone ----------------------- *)

NextForm ==
  \E id \in EmployeeIds \cup {NewEmployeeId}, formData \in EmployeeFormInputs :
    EmployeeFormSubmit(id, formData)

SpecForm == Init /\ [][NextForm]_vars

(* ------------- team management with payouts and the time clock ------- *)

NextTeam ==
  \/ \E p \in EditPayloads : Webhook(p, "none")
  \/ \E in \in HourlyInputs : CalculatePayouts(in, "none")
  \/ \E c \in Clients, emp \in EmployeeIds : HandleCheckIn(c, emp)
  \/ \E c \in Clients : \E id \in IdsOf(timeEntries[c]) : HandleCheckOut(c, id)
  \/ \E id \in EmployeeIds : DeleteEmployee(id)

SpecTeam == Init /\ [][NextTeam]_vars

(* ---------------------- webhook calls in parallel --------------------- *)

NextRace ==
  \/ \E w \in WebhookCalls, p \in RacePayloads : WebhookCheck(w, p)
  \/ \E w \in WebhookCalls : WebhookInsert(w)

SpecRace == Init /\ [][NextRace]_vars

(* ------------------- check-ins from two browsers ---------------------- *)

\* a team with two active hourly employees: Dan was made one
ClockTeamTable ==
  [EmployeesTable EXCEPT !["e5"] = [@ EXCEPT !.status = "active",
                                             !.pay_scale_type = "hourly",
                                             !.hourly_rate = 1800,
                                             !.project_rate = NoRates]]

InitCheckIn ==
  /\ employees = ClockTeamTable
  /\ app_settings = SettingsInit
  /\ payouts = <<>>
  /\ call = NoCall
  /\ nOps = 0
  /\ rateIn = NoRate
  /\ rateOut = NotComputed
  /\ TimeInit
  /\ inflight = NoInflight
  /\ pure = NoPure

\* a page load happens while no check-in of that browser is in progress
NextCheckIn ==
  \/ \E c \in Clients :
       /\ c \in DOMAIN inflight => inflight[c].pc = "done"
       /\ FetchTimeEntries(c)
  \/ \E c \in Clients, emp \in EmployeeIds : CheckInGuard(c, emp)
  \/ \E c \in Clients : CheckInInsert(c)

SpecCheckIn == InitCheckIn /\ [][NextCheckIn]_vars

(* ------------------- the time clock on one browser -------------------- *)

\* an entry of earlier today: Cal checked in two hours ago and out an hour ago
EarlierShift ==
  LET open == CheckInRow(1, "e4", StartOfClock - 120)
  IN  CalculateTotalHours(open, [open EXCEPT !.check_out_time = StartOfClock - 60,
                                             !.status = "checked_out"])

\* the admin's browser has loaded the table
InitSolo ==
  /\ employees = EmployeesTable
  /\ app_settings = SettingsInit
  /\ payouts = <<>>
  /\ call = NoCall
  /\ nOps = 0
  /\ rateIn = NoRate
  /\ rateOut = NotComputed
  /\ time_entries = {EarlierShift}
  /\ timeEntries = [c \in Clients |-> FetchedTimeEntries({EarlierShift}, StartOfClock)]
  /\ reportEntries = {}
  /\ now = StartOfClock
  /\ tcall = NoTimeCall
  /\ inflight = NoInflight
  /\ pure = NoPure

\* check-ins, check-outs and the edit dialogs, all on the admin's browser
NextSolo ==
  \/ \E emp \in EmployeeIds : HandleCheckIn("c1", emp)
  \/ \E id \in IdsOf(timeEntries["c1"]) : HandleCheckOut("c1", id)
  \/ \E id \in IdsOf(timeEntries["c1"]),
        checkIn \in TimeInputs, checkOut \in CheckOutInputs, notes \in NotesInputs :
       EditTimeEntrySave("c1", id, checkIn, checkOut, notes)
  \/ \E id \in IdsOf(timeEntries["c1"]),
        checkIn \in TimeInputs, checkOut \in CheckOutInputs, notes \in NotesInputs,
        nullOffset \in NullOffsetOutcomes :
       EditTimeEntrySaveOffset("c1", id, checkIn, checkOut, notes, nullOffset)

SpecSolo == InitSolo /\ [][NextSolo]_vars

(* ------------------ calculator with tracked hours --------------------- *)

\* a completed entry: checked in at t, checked out minutes later
ClosedEntry(id, emp, t, minutes) ==
  LET open == CheckInRow(id, emp, t)
  IN  CalculateTotalHours(open, [open EXCEPT !.check_out_time = t + minutes,
                                             !.status = "checked_out"])

\* two completed entries of Cal, one of Dan, and Dan checked in
TrackedTable ==
  {ClosedEntry(1, "e4", StartOfClock - 600, 120),
   ClosedEntry(2, "e4", StartOfClock - 300, 90),
   ClosedEntry(3, "e5", StartOfClock - 400, 60),
   CheckInRow(4, "e5", StartOfClock - 30)}

InitTracked ==
  /\ employees = ClockTeamTable
  /\ app_settings = SettingsInit
  /\ payouts = <<>>
  /\ call = NoCall
  /\ nOps = 0
  /\ rateIn = NoRate
  /\ rateOut = NotComputed
  /\ time_entries = TrackedTable
  /\ timeEntries = [c \in Clients |-> {}]
  /\ reportEntries = {}
  /\ now = StartOfClock
  /\ tcall = NoTimeCall
  /\ inflight = NoInflight
  /\ pure = TrackedForm

NextTracked ==
  \/ \E id \in EmployeeIds : ToggleEmployeeSelection(id)
  \/ \E id \in IdsOf(time_entries) : ToggleTimeEntry(id)
  \/ CalculateTracked

SpecTracked == InitTracked /\ [][NextTracked]_vars

(* --------------- the edit dialog saved as it opened ------------------- *)

\* clock-in and clock-out values of the hourly dialog: those of day 1, and 00:30
\* and 12:30 of day 2 in the admin's browser
ShiftInputs == DateTimeInputs \cup {2 * MinutesPerDay + 30,
                                    2 * MinutesPerDay + 12 * 60 + 30}

\* the admin's browser: the time clock, the report's hourly dialog, and the time
\* clock's dialog saved without a change
NextNoop ==
  \/ FetchTimeEntries("c1")
  \/ \E emp \in EmployeeIds : HandleCheckIn("c1", emp)
  \/ \E id \in IdsOf(timeEntries["c1"]) : HandleCheckOut("c1", id)
  \/ LoadReport
  \/ \E id \in IdsOf(reportEntries), clockInTime \in DateTimeInputs,
        clockOutTime \in ShiftInputs, editReason \in EditReasons :
       EditHourlySave(id, clockInTime, clockOutTime, editReason)
  \/ \E id \in IdsOf(timeEntries["c1"]), nullOffset \in NullOffsetOutcomes :
       EditTimeEntrySaveUnchanged("c1", id, nullOffset)

SpecNoop == InitSolo /\ [][NextNoop]_vars

(* --------------------- calculator: manual hours alone ------------------ *)

\* a result not computed yet
NotDone == -1

\* the minutes of the hour drawn for the start and end times
MinuteValues == {0, 15, 30, 59}

\* a start and an end time of day are drawn, then calculateHours is applied
InitHours ==
  /\ employees = EmployeesTable
  /\ app_settings = SettingsInit
  /\ payouts = <<>>
  /\ call = NoCall
  /\ nOps = 0
  /\ rateIn = NoRate
  /\ rateOut = NotComputed
  /\ TimeInit
  /\ inflight = NoInflight
  /\ pure \in [fn : {"calculateHours"},
               startH : 0..23, startM : MinuteValues, endH : 0..23, endM : {0, 30},
               out : {NotDone}]

\* calculateHours() with useTrackedHours off, on the texts of the two time inputs
ApplyCalculateHours ==
  /\ pure.fn = "calculateHours"
  /\ pure.out = NotDone
  /\ pure' = [pure EXCEPT !.out = CalculateHours(TimeText(pure.startH, pure.startM),
                                                 TimeText(pure.endH, pure.endM)).n]
  /\ UNCHANGED <<employees, app_settings, payouts, call, nOps, rateIn, rateOut, timeVars,
               inflight>>

NextHours == ApplyCalculateHours

SpecHours == InitHours /\ [][NextHours]_vars

(* ------------------------- time zone helpers --------------------------- *)
(* A zone with daylight saving time on a stretch of the time line: summer  *)
(* time starts at DstStart and ends at DstEnd (UTC minutes); a zone        *)
(* without it.  The browser's own zone is taken to have no transitions.    *)

Zones == {"America/Chicago", "Asia/Manila"}

\* the instant the clocks go from 02:00 to 03:00, and the one they go from 02:00
\* back to 01:00
DstStart == 8 * 60
DstEnd == MinutesPerDay + 7 * 60

\* minutes to add to UTC to get the wall clock of the zone at instant t
UtcOffset(tz, t) ==
  IF tz = "America/Chicago"
  THEN (IF DstStart <= t /\ t < DstEnd THEN -300 ELSE -360)
  ELSE 480

\* toUserLocalTime = toZonedTime(date, timezone): a Date whose fields read the wall
\* clock of the zone at that instant
ToUserLocalTime(utcTime, timezone) == utcTime + UtcOffset(timezone, utcTime)

\* the instants drawn: every half hour of two days around the transitions
Instants == {30 * k : k \in 0..96}

\* the instants at which the zone's wall clock reads localTime
InstantsOf(localTime, timezone) ==
  {u \in (localTime - 480 - 60)..(localTime + 360 + 60) :
     ToUserLocalTime(u, timezone) = localTime}

\* which instant the library takes for a wall clock time that occurs twice
Picks == {"earlier", "later"}

\* fromUserLocalTime = fromZonedTime(localTime, timezone): the instant at which the
\* zone's wall clock reads the fields of localTime
FromUserLocalTime(localTime, timezone, pick) ==
  LET us == InstantsOf(localTime, timezone)
  IN  IF us = {} THEN localTime - UtcOffset(timezone, localTime)
      ELSE IF pick = "earlier" THEN CHOOSE u \in us : \A v \in us : u <= v
      ELSE CHOOSE u \in us : \A v \in us : v <= u

InitZone ==
  /\ employees = EmployeesTable
  /\ app_settings = SettingsInit
  /\ payouts = <<>>
  /\ call = NoCall
  /\ nOps = 0
  /\ rateIn = NoRate
  /\ rateOut = NotComputed
  /\ TimeInit
  /\ inflight = NoInflight
  /\ pure \in [fn : {"roundTrip"}, t : Instants, tz : Zones,
               local : {NotDone}, back : {NotDone}]

ApplyToUserLocalTime ==
  /\ pure.fn = "roundTrip"
  /\ pure.local = NotDone
  /\ pure' = [pure EXCEPT !.local = ToUserLocalTime(pure.t, pure.tz)]
  /\ UNCHANGED <<employees, app_settings, payouts, call, nOps, rateIn, rateOut, timeVars,
               inflight>>

ApplyFromUserLocalTime(pick) ==
  /\ pure.fn = "roundTrip"
  /\ pure.local # NotDone
  /\ pure.back = NotDone
  /\ pure' = [pure EXCEPT !.back = FromUserLocalTime(pure.local, pure.tz, pick)]
  /\ UNCHANGED <<employees, app_settings, payouts, call, nOps, rateIn, rateOut, timeVars,
               inflight>>

NextZone ==
  \/ ApplyToUserLocalTime
  \/ \E pick \in Picks : ApplyFromUserLocalTime(pick)

SpecZone == InitZone /\ [][NextZone]_vars

(* ------------------- webhook: the quoted-by lookup --------------------- *)

\* an employees table in which two rows carry the same name
LookupEmployeesTable == [EmployeesTable EXCEPT !["e5"].name = "Cal"]

\* requests quoted by a name two employees have, by a name nobody has, and by an
\* existing employee
LookupPayloads ==
  [project_value : {100000}, project_title : {"Roof"},
   quoted_by_name : {"Cal", "Zed", "Ann"}, first_time : BOOLEAN,
   employees_assigned : {<<"Ann">>, <<"Bob">>, <<"Ann", "Bob">>},
   job_id : {"", "JOB-42"}]

InitLookup ==
  /\ employees = LookupEmployeesTable
  /\ app_settings = SettingsInit
  /\ payouts = <<>>
  /\ call = NoCall
  /\ nOps = 0
  /\ rateIn = NoRate
  /\ rateOut = NotComputed
  /\ TimeInit
  /\ inflight = NoInflight
  /\ pure = NoPure

NextLookup ==
  \/ \E p \in LookupPayloads : Webhook(p, "none")
  \/ \E p \in LookupPayloads : Webhook(p, "quotedBy")

SpecLookup == InitLookup /\ [][NextLookup]_vars

(* ------------------------------- claims -------------------------------- *)

\* the rows the last operation inserted
NewRows == SubSeq(payouts, call.before + 1, Len(payouts))

IsBonusRow(r) == r.employee_name[2] # ""

BaseRowsOf(rows) == {i \in 1..Len(rows) : ~IsBonusRow(rows[i])}

BonusRowsOf(rows) == {i \in 1..Len(rows) : IsBonusRow(rows[i])}

\* the last operation is a webhook call no backend query of which failed
CleanWebhook == call.op = "webhook" /\ call.fault = "none"

WebhookOk == call.op = "webhook" /\ call.status = 200

\* the rate column of employee id for c collaborators, an absent rate counting as 0
TierRate(id, c) == OrZero(employees[id].project_rate[IF c > 5 THEN 5 ELSE c])

\* k is n/d rounded to the nearest integer, halves up
IsRounded(k, n, d) == 2 * d * k <= 2 * n + d /\ 2 * n + d < 2 * d * (k + 1)

RowsWithJob(table, job) == {i \in 1..Len(table) : table[i].job_id = job}

Overlap(a, b) == SeqToSet(a) \cap SeqToSet(b) # {}

\* C1 (scenario D): after a webhook call that succeeded, the same request sent
\* again (same non-empty job_id, same employees_assigned) is answered 409 and the
\* number of payouts rows with that job_id does not change.
C1_DuplicateRejected ==
  [][(/\ WebhookOk
      /\ call'.op = "webhook" /\ nOps' = nOps + 1 /\ call'.fault = "none"
      /\ call'.payload.job_id # ""
      /\ call'.payload.job_id = call.payload.job_id
      /\ Overlap(call'.payload.employees_assigned, call.payload.employees_assigned)
      /\ call'.payload = call.payload)
     => (/\ call'.status = 409
         /\ Cardinality(RowsWithJob(payouts', call'.payload.job_id))
              = Cardinality(RowsWithJob(payouts, call.payload.job_id)))]_vars

\* C2: both rate switches give the employee's rate for exactly c members when the
\* collaborator count c is in 1..5 and the 5-member rate for every c > 5.
C2_RateSaturates ==
  LET c    == rateIn.count
      tier == OrZero(rateIn.rates[IF c > 5 THEN 5 ELSE c])
  IN  /\ rateOut.webhook # NoNum => rateOut.webhook = tier
      /\ rateOut.calc # NoNum => rateOut.calc = tier

\* C2 witness: both switches have been applied to a count above 5 and gave a rate
\* that differs from the employee's other rates.
C2_Witness ==
  /\ rateIn.count > 5
  /\ rateOut.webhook = 2550 /\ rateOut.calc = 2550
  /\ \A i \in 1..4 : rateIn.rates[i] # 2550

\* C3: every base row a webhook call inserts holds project_value * selectedRate / 100
\* rounded to the cent, the selected rate being the employee's rate for the
\* collaborator count, whether or not the call also inserted a bonus row.
C3_BaseAmount ==
  WebhookOk =>
    \A i \in BaseRowsOf(NewRows) :
      LET r == NewRows[i] IN
      /\ r.rate = TierRate(r.employee_id, r.collaborators_count)
      /\ r.project_value = call.payload.project_value
      /\ IsRounded(r.amount, call.payload.project_value * r.rate, 10000)

\* C3 witness: a call inserted a base row whose exact share is not a whole cent,
\* rounded up, together with a bonus row.
C3_Witness ==
  /\ WebhookOk
  /\ BonusRowsOf(NewRows) # {}
  /\ \E i \in BaseRowsOf(NewRows) :
       /\ (call.payload.project_value * NewRows[i].rate) % 10000 >= 5000
       /\ NewRows[i].amount * 10000 > call.payload.project_value * NewRows[i].rate

\* C4: a webhook call inserts at most one bonus row; with first_time set it is
\* never a quoted-by bonus, without first_time never a first-time bonus.
C4_OneBonus ==
  WebhookOk =>
    /\ Cardinality(BonusRowsOf(NewRows)) <= 1
    /\ \A i \in BonusRowsOf(NewRows) :
         /\ call.payload.first_time => NewRows[i].employee_name[2] # QuotedBySuffix
         /\ ~call.payload.first_time => NewRows[i].employee_name[2] # FirstTimeSuffix

\* C4 witness: a first-time call and a regular call each inserted their bonus row.
C4_Witness ==
  /\ WebhookOk
  /\ ~call.payload.first_time
  /\ \E i \in BonusRowsOf(NewRows) : NewRows[i].employee_name[2] = QuotedBySuffix
  /\ \E j \in 1..call.before : payouts[j].employee_name[2] = FirstTimeSuffix

\* the percentages a bonus of that kind can carry: the stored value or the default
BonusPercentages(first) ==
  LET key == IF first THEN FirstTimeKey ELSE QuotedByKey
  IN  {IF first THEN 3000 ELSE 200}
      \cup (IF app_settings[key] = NoRow THEN {} ELSE {ParseFloat(app_settings[key]).val})

\* C5: when the quoted-by employee is resolved, a successful webhook call inserts
\* exactly one bonus row, for that employee, of project_value * percentage / 100
\* (the first-time percentage if first_time, the quoted-by percentage otherwise),
\* and as many base rows as there are resolved employees with a non-zero rate.
C5_BonusLine ==
  WebhookOk =>
    /\ Cardinality(BaseRowsOf(NewRows))
         = Cardinality({k \in 1..Len(call.found) :
                          TierRate(call.found[k], Len(call.found)) # 0})
    /\ call.quoted_by = NULL => BonusRowsOf(NewRows) = {}
    /\ call.quoted_by # NULL =>
         /\ Cardinality(BonusRowsOf(NewRows)) = 1
         /\ \A i \in BonusRowsOf(NewRows) :
              LET r == NewRows[i] IN
              /\ r.employee_id = call.quoted_by
              /\ r.quoted_by_id = call.quoted_by
              /\ r.is_first_time = call.payload.first_time
              /\ r.rate \in BonusPercentages(call.payload.first_time)
              /\ IsRounded(r.amount, call.payload.project_value * r.rate, 10000)

\* C5 witness (scenario B): two assignees, quoted by one of them, first time, 30%:
\* two base rows at the 2-member rate and one bonus row of $300.00.
C5_Witness ==
  /\ WebhookOk
  /\ call.payload.employees_assigned = <<"Ann", "Bob">>
  /\ call.payload.first_time /\ call.quoted_by = "e1"
  /\ call.payload.project_value = 100000
  /\ Len(NewRows) = 3
  /\ NewRows[1].rate = 2000 /\ NewRows[2].rate = 2000
  /\ NewRows[3].employee_id = "e1" /\ NewRows[3].amount = 30000
  /\ NewRows[3].employee_name[2] = FirstTimeSuffix

\* C6: a bonus row carries the numeric value of the stored setting whenever the
\* setting row exists, is read and parses as a number (0 included), and the
\* default (30 first-time, 2 quoted-by) otherwise.
C6_StoredPercentage ==
  (WebhookOk /\ call.fault = "none") =>
    \A i \in BonusRowsOf(NewRows) :
      LET key  == IF call.payload.first_time THEN FirstTimeKey ELSE QuotedByKey
          dflt == IF call.payload.first_time THEN 3000 ELSE 200
      IN  NewRows[i].rate =
            IF app_settings[key] = NoRow \/ ParseFloat(app_settings[key]).nan
            THEN dflt
            ELSE ParseFloat(app_settings[key]).val

\* C7: when every resolved employee has a zero or absent rate for the collaborator
\* count, the call is answered 400 'No payouts could be calculated' and inserts
\* nothing, whatever first_time and the quoted-by employee are.
C7_AllZeroRejected ==
  (/\ CleanWebhook
   /\ call.found # <<>>
   /\ \A k \in 1..Len(call.found) : TierRate(call.found[k], Len(call.found)) = 0)
  => (/\ call.status = 400
      /\ call.error = "No payouts could be calculated"
      /\ Len(payouts) = call.before)

\* C8: no base payout row is inserted for an employee whose selected rate is zero
\* or absent, by the webhook or by the calculator.
C8_NoZeroRateRow ==
  \A i \in 1..Len(payouts) :
    (~IsBonusRow(payouts[i]) /\ payouts[i].calculation_type = "project")
      => payouts[i].rate # 0

\* C9: collaborators_count of every row a webhook call inserts is the number of
\* names in employees_assigned.
C9_CountIsAssigned ==
  WebhookOk =>
    \A i \in 1..Len(NewRows) :
      NewRows[i].collaborators_count = Len(call.payload.employees_assigned)

\* C10: a webhook call answered with a status other than 200 leaves the payouts
\* table unchanged; missing required fields are answered 400 'Missing required
\* fields', names that resolve to no active project employee 400 'No matching
\* project-based employees found'.
C10_RejectLeavesTable ==
  [][(call'.op = "webhook" /\ nOps' = nOps + 1) =>
       /\ call'.status # 200 => payouts' = payouts
       /\ (\/ call'.payload.project_value = 0
           \/ call'.payload.project_title = ""
           \/ call'.payload.employees_assigned = <<>>)
            => call'.status = 400 /\ call'.error = "Missing required fields"
       /\ (/\ call'.payload.project_value # 0
           /\ call'.payload.project_title # ""
           /\ call'.payload.employees_assigned # <<>>
           /\ call'.fault = "none"
           /\ \A id \in EmployeeIds :
                \/ employees[id].name \notin SeqToSet(call'.payload.employees_assigned)
                \/ employees[id].status # "active"
                \/ employees[id].pay_scale_type # "project")
            => /\ call'.status = 400
               /\ call'.error = "No matching project-based employees found"]_vars

\* C10 witness: with rows in the table, a call was rejected for resolving nobody.
C10_Witness ==
  /\ call.op = "webhook"
  /\ call.status = 400
  /\ call.error = "No matching project-based employees found"
  /\ Len(payouts) > 0

\* the employees whose name is the quoted_by_name of the last request
QuotedByHits == {id \in EmployeeIds : employees[id].name = call.payload.quoted_by_name}

\* the resolved employees of the last call with a non-zero rate
PaidOfCall == {k \in 1..Len(call.found) : TierRate(call.found[k], Len(call.found)) # 0}

\* the rows that were in the table before the last call and that its duplicate
\* check is about
EarlierOfJob ==
  {i \in 1..call.before : /\ payouts[i].job_id = call.payload.job_id
                           /\ payouts[i].source = "auto"
                           /\ payouts[i].employee_id \in SeqToSet(call.found)}

\* C11: when quoted_by_name is given and does not resolve to exactly one employee
\* (no row, several rows, or a failed lookup), the call is answered as the same
\* request without a quoted-by would be: 200 unless no resolved employee has a
\* rate (400) or the job was already paid (409); a 200 inserts the base rows of
\* the resolved employees only, no bonus row, each with quoted_by_id = null.
C11_QuotedByMiss ==
  (/\ call.op = "webhook"
   /\ call.payload.quoted_by_name # ""
   /\ (Cardinality(QuotedByHits) # 1 \/ call.fault = "quotedBy"))
  => /\ call.status = (IF PaidOfCall = {} THEN 400
                        ELSE IF call.payload.job_id # "" /\ EarlierOfJob # {} THEN 409
                        ELSE 200)
     /\ call.status = 200 =>
          /\ BonusRowsOf(NewRows) = {}
          /\ Len(NewRows) = Cardinality(PaidOfCall)
          /\ \A i \in 1..Len(NewRows) :
               /\ NewRows[i].quoted_by_id = NULL
               /\ \E k \in PaidOfCall : NewRows[i].employee_id = call.found[k]

\* C11 witness: a name two employees carry, a name nobody carries and a failed
\* lookup each ended in a 200 with base rows.
C11_Witness ==
  /\ call.op = "webhook" /\ call.status = 200
  /\ Cardinality(QuotedByHits) > 1
  /\ Len(NewRows) = 2
  /\ call.before > 0
  /\ \E i \in 1..call.before :
       payouts[i].quoted_by_name = "Zed" /\ payouts[i].quoted_by_id = NULL

\* C12: a request without job_id (omitted or empty) sent again after it succeeded
\* succeeds again and inserts its rows again, all with job_id = null.
C12_NoJobNoCheck ==
  [][(/\ WebhookOk
      /\ call.payload.job_id = ""
      /\ call'.op = "webhook" /\ nOps' = nOps + 1 /\ call'.fault = call.fault
      /\ call'.payload = call.payload)
     => (/\ call'.status = 200
         /\ Len(payouts') = Len(payouts) + (Len(payouts) - call.before)
         /\ Len(payouts') > Len(payouts)
         /\ \A i \in (call.before + 1)..Len(payouts') : payouts'[i].job_id = NULL)]_vars

\* C12 witness: the table holds the rows of a request without job_id twice.
C12_Witness ==
  /\ WebhookOk
  /\ call.payload.job_id = ""
  /\ nOps = 2
  /\ call.before > 0
  /\ Len(payouts) = 2 * call.before
  /\ \A i \in 1..call.before :
       payouts[i] = payouts[call.before + i] /\ payouts[i].job_id = NULL

(* --------------------------- time clock claims ------------------------- *)

\* the stored entries of an employee that are open
OpenEntries(table, emp) == {r \in table : r.employee_id = emp /\ r.status = "checked_in"}

\* C13: a check-in for an employee who has a checked_in entry in the table is
\* rejected and inserts no row, whichever browser issues it and however old the
\* open entry is.
C13_NoDoubleCheckIn ==
  [][(/\ tcall'.op = "checkin" /\ nOps' = nOps + 1
      /\ OpenEntries(time_entries, tcall'.employee) # {})
     => (tcall'.outcome = "rejected" /\ time_entries' = time_entries)]_vars

\* C14: a check-out issued for an entry that is checked_out in the table changes
\* neither its check_out_time nor its total_hours.
C14_CheckOutOnlyOpen ==
  [][(/\ tcall'.op = "checkout" /\ nOps' = nOps + 1
      /\ tcall'.id \in IdsOf(time_entries)
      /\ RowOf(time_entries, tcall'.id).status = "checked_out")
     => (/\ tcall'.id \in IdsOf(time_entries')
         /\ RowOf(time_entries', tcall'.id).check_out_time
              = RowOf(time_entries, tcall'.id).check_out_time
         /\ RowOf(time_entries', tcall'.id).total_hours
              = RowOf(time_entries, tcall'.id).total_hours)]_vars

\* total_hours is non-null iff status = checked_out iff check_out_time is non-null
EntryConsistent(r) ==
  /\ (r.total_hours # NoHours) <=> (r.status = "checked_out")
  /\ (r.status = "checked_out") <=> (r.check_out_time # NoTime)

\* C15: after check-ins, check-outs, saves of either edit dialog, saves of the
\* hourly dialog and deletes, every time entry has total_hours non-null iff status
\* = checked_out iff check_out_time non-null; and an entry goes from checked_out
\* back to checked_in only by an edit-dialog save that clears the check-out time.
C15_EntryConsistent ==
  [][/\ \A r \in time_entries' : EntryConsistent(r)
     /\ \A r \in time_entries :
          (/\ r.status = "checked_out"
           /\ r.id \in IdsOf(time_entries')
           /\ RowOf(time_entries', r.id).status = "checked_in")
          => (/\ tcall'.op \in {"edit", "editOffset"}
              /\ tcall'.outcome = "cleared"
              /\ tcall'.id = r.id)]_vars

\* C15 witness: an entry that was checked out is checked in again, without
\* total_hours, after an edit that cleared its check-out.
C15_Witness ==
  /\ tcall.op \in {"edit", "editOffset"} /\ tcall.outcome = "cleared"
  /\ tcall.id \in IdsOf(time_entries)
  /\ RowOf(time_entries, tcall.id).status = "checked_in"
  /\ RowOf(time_entries, tcall.id).total_hours = NoHours

\* C16: every checked_out entry has total_hours = check_out_time - check_in_time
\* (in hours) and total_hours >= 0.
C16_HoursAreElapsed ==
  \A r \in time_entries :
    r.status = "checked_out" =>
      /\ r.total_hours = r.check_out_time - r.check_in_time
      /\ r.total_hours >= 0

\* C19: every entry the report lists as an hourly payout shows the amount
\* (check_out_time - check_in_time in hours) * the employee's hourly_rate.
C19_ReportAmount ==
  \A r \in TimeEntryReports(reportEntries) :
    LET shown == ReportAmount(employees, r)
    IN  shown.n * 60 = (r.check_out_time - r.check_in_time)
                         * employees[r.employee_id].hourly_rate * shown.d

(* ------------------------ pure function claims ------------------------- *)

\* C17: for every UTC instant t and every zone tz, instants around daylight-saving
\* transitions included, fromUserLocalTime(toUserLocalTime(t, tz), tz) is t.
C17_RoundTrip ==
  (pure.fn = "roundTrip" /\ pure.back # NotDone) => pure.back = pure.t

\* C18: for every start and end time of day the manual hours are
\* ((end - start) mod 24 h), never negative and below 24; 22:00 to 06:00 gives 8.
C18_ManualHours ==
  (pure.fn = "calculateHours" /\ pure.out # NotDone) =>
    LET startMinutes == 60 * pure.startH + pure.startM
        endMinutes   == 60 * pure.endH + pure.endM
    IN  /\ pure.out = (endMinutes - startMinutes) % (24 * 60)
        /\ pure.out >= 0 /\ pure.out < 24 * 60
        /\ (startMinutes = 22 * 60 /\ endMinutes = 6 * 60) => pure.out = 8 * 60

\* C18 witness: 22:00 to 06:00 was computed as 8 hours.
C18_Witness ==
  /\ pure.fn = "calculateHours"
  /\ pure.startH = 22 /\ pure.startM = 0 /\ pure.endH = 6 /\ pure.endM = 0
  /\ pure.out = 8 * 60

(* ---------------------------- payout rows ----------------------------- *)

\* C20: in every payouts row written by the webhook, the manual calculator or an
\* edit dialog, project_value is null when calculation_type is hourly and
\* hours_worked is null when calculation_type is project.
C20_ExclusiveColumns ==
  \A i \in 1..Len(payouts) :
    /\ payouts[i].calculation_type = "hourly" => payouts[i].project_value = NoNum
    /\ payouts[i].calculation_type = "project" => payouts[i].hours_worked = NoNum

\* C20 witness: an hourly row was saved by the hourly dialog; its hours are stored,
\* its project value is not.
C20_Witness ==
  /\ call.op = "editHourlyPayout" /\ call.status = 200
  /\ payouts[call.before].calculation_type = "hourly"
  /\ payouts[call.before].is_edited
  /\ payouts[call.before].hours_worked # NoNum
  /\ payouts[call.before].project_value = NoNum

(* --------------------------- bonus settings ---------------------------- *)

\* the suffix of the bonus line a setting is the percentage of
SuffixOfKey(key) == IF key = FirstTimeKey THEN FirstTimeSuffix ELSE QuotedBySuffix

\* C21: after the Settings screen reports a successful update of a bonus percentage
\* to a number p, the next payout computation (webhook or manual calculator, its
\* queries succeeding) that emits the corresponding bonus line emits it at
\* percentage p.
C21_ReadThrough ==
  [][(/\ call.op = "setting" /\ call.status = 200
      /\ ~ParseFloat(call.payload[2]).nan
      /\ call'.op \in {"webhook", "calculator"} /\ call'.status = 200
      /\ call'.fault = "none")
     => \A i \in (Len(payouts) + 1)..Len(payouts') :
          payouts'[i].employee_name[2] = SuffixOfKey(call.payload[1])
            => payouts'[i].rate = ParseFloat(call.payload[2]).val]_vars

(* ----------------------------- edit reason ---------------------------- *)

\* C22: in each dialog that edits a time entry, a save without a reason is rejected
\* and leaves the time entries as they were.
C22_ReasonRequired ==
  [][(/\ nOps' # nOps
      /\ tcall'.op \in {"edit", "editOffset", "editHourly"}
      /\ tcall'.reason = "")
     => time_entries' = time_entries]_vars

(* ------------------------------ employees ----------------------------- *)

\* C23: in every state reached by creating and editing employees through the
\* employee form, hourly_rate is non-null iff pay_scale_type is hourly, and a
\* project rate is non-null only if pay_scale_type is project.
C23_RatesFollowType ==
  \A id \in DOMAIN employees :
    /\ employees[id].hourly_rate # NoNum <=> employees[id].pay_scale_type = "hourly"
    /\ (\E k \in 1..5 : employees[id].project_rate[k] # NoNum)
         => employees[id].pay_scale_type = "project"

\* C24: deleting an employee removes the employees row only: every payouts row
\* and every time_entries row is left as it was, the deleted employee's open entry
\* and the rows carrying the employee's name included.
C24_DeleteNoCascade ==
  [][(call'.op = "deleteEmployee" /\ call' # call)
     => /\ payouts' = payouts
        /\ time_entries' = time_entries
        /\ \A id \in EmployeeIds :
             id # call'.payload[1] => employees'[id] = employees[id]
        /\ employees'[call'.payload[1]] = DeletedEmployee]_vars

\* C24 witness: Cal was deleted while a payout row and an open time entry carry
\* Cal's id and name.
C24_Witness ==
  /\ call.op = "deleteEmployee" /\ call.payload = <<"e4">>
  /\ employees["e4"] = DeletedEmployee
  /\ \E i \in 1..Len(payouts) :
       payouts[i].employee_id = "e4" /\ payouts[i].employee_name[1] = "Cal"
  /\ \E r \in time_entries :
       r.employee_id = "e4" /\ r.employee_name = "Cal" /\ r.status = "checked_in"

(* ------------------------------- races -------------------------------- *)

\* C25: a webhook call that passed the duplicate query inserts its rows and answers
\* 200 whatever was inserted since; so when two calls for the same job_id and the
\* same employees both pass the query before either inserts, both succeed and the
\* table ends with two sets of rows for that job_id.
C25_BothInsert ==
  /\ \A w \in DOMAIN inflight :
       (inflight[w].pc = "done" /\ inflight[w].rows # <<>>) => inflight[w].status = 200
  /\ (\A w \in WebhookCalls : w \in DOMAIN inflight /\ inflight[w].pc = "done")
       => /\ Len(payouts) = Len(inflight["w1"].rows) + Len(inflight["w2"].rows)
          /\ \A i \in 1..Len(payouts) : payouts[i].job_id = "JOB-42"

\* C25 witness: two calls for JOB-42 and for Ann and Bob both ran the duplicate
\* query on the empty table, both answered 200 and the table holds both sets of rows.
C25_Witness ==
  /\ \A w \in WebhookCalls :
       /\ w \in DOMAIN inflight
       /\ inflight[w].pc = "done" /\ inflight[w].status = 200
       /\ inflight[w].seen = 0
       /\ inflight[w].payload.employees_assigned = <<"Ann", "Bob">>
  /\ Len(payouts) = 4
  /\ {payouts[i].employee_id : i \in 1..Len(payouts)} = {"e1", "e2"}
  /\ \A i \in 1..Len(payouts) : payouts[i].job_id = "JOB-42"

\* the columns of a set of time entries that do not depend on the generated id
Unid(rows) == {[employee_id |-> r.employee_id, check_in_time |-> r.check_in_time,
                status |-> r.status] : r \in rows}

\* the step of a browser's check-in that is in progress
ReqPc(c) == IF c \in DOMAIN inflight THEN inflight[c].pc ELSE "idle"

\* C26: a check-in for an employee nobody holds an open entry for always passes the
\* guard, whatever entries other employees have, and a check-in that passed the
\* guard always inserts: the table gains exactly one checked_in row for its own
\* employee, a function of the table and of that request alone, so two check-ins for
\* different employees both succeed and commute; two for the same employee can both
\* pass the guard before either inserts (C26_Witness).
C26_CheckInsIndependent ==
  [][\A c \in Clients :
       /\ (/\ nOps' # nOps /\ c \in DOMAIN inflight' /\ ReqPc(c) # "guarded"
           /\ (c \in DOMAIN inflight => inflight'[c] # inflight[c])
           /\ \A r \in time_entries :
                r.employee_id = inflight'[c].employee => r.status # "checked_in")
          => inflight'[c].pc = "guarded"
       /\ (ReqPc(c) = "guarded" /\ inflight'[c].pc = "done")
          => /\ inflight'[c].outcome = "done"
             /\ Cardinality(time_entries') = Cardinality(time_entries) + 1
             /\ Unid(time_entries') =
                  Unid(time_entries) \cup
                  {[employee_id |-> inflight[c].employee, check_in_time |-> now,
                    status |-> "checked_in"]}
             /\ \A d \in Clients \ {c} : ReqPc(d) = "idle" \/ inflight'[d] = inflight[d]
    ]_vars

\* C26 witness: both browsers passed the guard for Cal while the table was empty,
\* both inserted, and Cal has two checked_in entries.
C26_Witness ==
  /\ \A c \in Clients :
       /\ c \in DOMAIN inflight
       /\ inflight[c] = [pc |-> "done", employee |-> "e4", outcome |-> "done", seen |-> 0]
  /\ Cardinality({r \in time_entries : r.employee_id = "e4" /\ r.status = "checked_in"}) = 2

(* --------------------------- one open entry ---------------------------- *)

\* C27: with one browser whose loaded list is the table, after any check-ins,
\* check-outs and edits no employee has more than one entry in checked_in state.
C27_OneOpenEntry ==
  timeEntries["c1"] = time_entries
    => \A emp \in EmployeeIds :
         Cardinality({r \in time_entries :
                        r.employee_id = emp /\ r.status = "checked_in"}) <= 1

(* ---------------------------- tracked hours --------------------------- *)

\* the minutes of the selected loaded entries that belong to one employee
OwnMinutes(list, ids, emp) ==
  TrackedHours({r \in list : r.employee_id = emp}, ids)

\* C28: in tracked-hours mode each hourly employee's amount is the rate times the
\* sum of total_hours of the selected entries of that employee only.
C28_OwnHoursOnly ==
  [][(call'.op = "calculatorTracked" /\ nOps' # nOps)
       => \A i \in 1..Len(pure'.results) :
            pure'.results[i].amount =
              [n |-> pure'.results[i].rate
                     * OwnMinutes(pure.timeEntries, pure.selectedTimeEntries,
                                  pure'.results[i].employeeId),
               d |-> 60]]_vars

(* ------------------------- saving without a change --------------------- *)

\* C29: saving the offset edit dialog as it opened, on a checked_out entry the
\* browser holds as stored, leaves check_in_time, check_out_time and total_hours of
\* the stored row as they were (instants are whole minutes).
C29_UnchangedSaveNoop ==
  [][(/\ tcall'.op = "editOffset" /\ nOps' # nOps
      /\ tcall'.id \in IdsOf(time_entries)
      /\ RowOf(time_entries, tcall'.id).status = "checked_out"
      /\ RowOf(time_entries, tcall'.id) \in timeEntries["c1"])
     => LET old == RowOf(time_entries, tcall'.id)
            new == RowOf(time_entries', tcall'.id)
        IN  /\ new.check_in_time = old.check_in_time
            /\ new.check_out_time = old.check_out_time
            /\ new.total_hours = old.total_hours]_vars

(* --------------------------- payout edit dialog ------------------------ *)

\* C30: when the project payout edit dialog is saved after an edit of the rate or
\* of the project value, both positive, the stored amount is project_value * rate /
\* 100 rounded to 2 decimals, whatever the collaborators count; when it is saved
\* after the amount was typed, the stored amount is the typed one.
C30_AmountFromRate ==
  [][(/\ call'.op \in {"editPayout", "editPayoutRates"} /\ call' # call
      /\ call'.status = 200
      /\ payouts[call'.before].calculation_type = "project")
     => LET row == payouts'[call'.before]
            key == call'.payload.lastEdited
        IN  /\ (/\ key \in {"rate", "project_value"}
                /\ row.project_value # NoNum /\ row.project_value > 0
                /\ row.rate > 0)
               => row.amount = Numeric2([n |-> row.project_value * row.rate, d |-> 10000])
            /\ key = "amount" => row.amount = call'.payload.value]_vars

====
